---------------------------- MODULE Spec2Model ----------------------------
(***************************************************************************)
(* Reversible PII masking engine of ollqd_worker/processing/pii_masking.py *)
(* : EntityRegistry, StreamUnmaskBuffer and PIIMaskingService.mask_text.   *)
(*                                                                         *)
(* A Python str is modelled as a sequence of one-character strings, so     *)
(* that str.strip, str.replace, slicing, f-string formatting and the       *)
(* character loop of feed are computed the way the code computes them.     *)
(* A Python dict is modelled as the sequence of its <<key, value>> items   *)
(* in insertion order, the order dict.items() iterates in.                 *)
(*                                                                         *)
(* The specifications: Spec and SplitSpec (one streaming turn),            *)
(* RegistrySpec (get_or_create_token), MaskSpec (mask_text), AccessSpec    *)
(* (the accessors of the registry), LoadSpec (threads inside _get_nlp),    *)
(* TurnsSpec (concurrent chat turns, each with objects of its own) and     *)
(* ChatSpec (the chat handlers of services/chat.py, routers/rag.py and     *)
(* routers/ollama.py).                                                     *)
(***************************************************************************)
EXTENDS Integers, Sequences, FiniteSets, TLC

VARIABLES
    value_to_token,   \* EntityRegistry._value_to_token
    token_to_value,   \* EntityRegistry._token_to_value
    type_counters,    \* EntityRegistry._type_counters
    state,            \* StreamUnmaskBuffer._state
    buffer,           \* StreamUnmaskBuffer._buffer
    use_spacy,        \* PIIMaskingService._use_spacy
    nlp,              \* PIIMaskingService._nlp: "None" or "model"
    phase,            \* position of the turn: "mask", "stream", "done"
    calls,            \* the calls made on the stream buffer, in order
    last,             \* the last call made on the registry or service
    loads,            \* the outcomes of the spacy.load calls made so far
    pc,               \* the position of each thread inside _get_nlp
    handout,          \* the dict last handed out by token_to_value
    heap,             \* the registries and stream buffers created so far
    turns,            \* the local variables of each concurrent chat turn
    chat              \* the local variables of the chat handler

vars == <<value_to_token, token_to_value, type_counters, state, buffer,
          use_spacy, nlp, phase, calls, last,
          loads, pc, handout, heap, turns, chat>>

\* What the handlers of a single registry and buffer leave alone
thread_vars == <<pc>>
access_vars == <<handout>>
turn_vars == <<heap, turns>>
chat_vars == <<chat>>

registry_vars == <<value_to_token, token_to_value, type_counters>>

buffer_vars == <<state, buffer>>

service_vars == <<use_spacy, nlp>>

(***************************************************************************)
(* Bounds of the model.                                                    *)
(***************************************************************************)
\* The most fragments fed to one stream buffer in Spec
MaxFeeds == 3

\* The most entries a registry holds
MaxEntities == 3

\* The most pieces the text of a first mask_text call is made of
MaxPieces == 4

\* The most pieces the text of an unmask call is made of
MaxUnmaskPieces == 2

\* The threads that use one PIIMaskingService at the same time
MaxThreads == 2

\* The chat turns that run at the same time
MaxTurns == 2

(***************************************************************************)
(* Strings.                                                                *)
(***************************************************************************)
Whitespace == {" ", "\t", "\n", "\r"}

RECURSIVE LStrip(_)
LStrip(s) ==
    IF s # <<>> /\ Head(s) \in Whitespace THEN LStrip(Tail(s)) ELSE s

RECURSIVE RStrip(_)
RStrip(s) ==
    IF s # <<>> /\ s[Len(s)] \in Whitespace
    THEN RStrip(SubSeq(s, 1, Len(s) - 1))
    ELSE s

\* str.strip()
Strip(s) == RStrip(LStrip(s))

\* s.startswith(p)
StartsWith(s, p) == Len(p) <= Len(s) /\ SubSeq(s, 1, Len(p)) = p

\* str.replace(old, new): every non-overlapping occurrence, left to right
RECURSIVE Replace(_, _, _)
Replace(s, old, new) ==
    IF s = <<>> THEN <<>>
    ELSE IF StartsWith(s, old)
         THEN new \o Replace(SubSeq(s, Len(old) + 1, Len(s)), old, new)
         ELSE <<Head(s)>> \o Replace(Tail(s), old, new)

\* "".join(parts)
RECURSIVE Join(_)
Join(parts) == IF parts = <<>> THEN <<>> ELSE Head(parts) \o Join(Tail(parts))

\* sub in s
Contains(s, sub) ==
    \E i \in 1..(Len(s) - Len(sub) + 1) : SubSeq(s, i, i + Len(sub) - 1) = sub

DigitChar == <<"0", "1", "2", "3", "4", "5", "6", "7", "8", "9">>

\* str(n) for n >= 0, as the f-string formats the counter
RECURSIVE IntToStr(_)
IntToStr(n) ==
    IF n < 10 THEN <<DigitChar[n + 1]>>
    ELSE IntToStr(n \div 10) \o <<DigitChar[(n % 10) + 1]>>

(***************************************************************************)
(* dict, as the sequence of its items in insertion order.                  *)
(***************************************************************************)
DictKeys(d) == {d[i][1] : i \in DOMAIN d}

DictValues(d) == {d[i][2] : i \in DOMAIN d}

\* d[k] for k in d
DictGet(d, k) == d[CHOOSE i \in DOMAIN d : d[i][1] = k][2]

\* d[k] = v: a new key is appended, a known key keeps its place
DictSet(d, k, v) ==
    IF k \in DictKeys(d)
    THEN [i \in DOMAIN d |-> IF d[i][1] = k THEN <<k, v>> ELSE d[i]]
    ELSE Append(d, <<k, v>>)

(***************************************************************************)
(* PII kinds: the types of _PII_PATTERNS and the values of _SPACY_LABEL_MAP*)
(***************************************************************************)
EMAIL == <<"E", "M", "A", "I", "L">>

PHONE == <<"P", "H", "O", "N", "E">>

SSN == <<"S", "S", "N">>

CREDIT_CARD == <<"C", "R", "E", "D", "I", "T", "_", "C", "A", "R", "D">>

IP_ADDRESS == <<"I", "P", "_", "A", "D", "D", "R", "E", "S", "S">>

IBAN == <<"I", "B", "A", "N">>

DATE_OF_BIRTH ==
    <<"D", "A", "T", "E", "_", "O", "F", "_", "B", "I", "R", "T", "H">>

PERSON == <<"P", "E", "R", "S", "O", "N">>

ORG == <<"O", "R", "G">>

LOCATION == <<"L", "O", "C", "A", "T", "I", "O", "N">>

RegexKinds ==
    {EMAIL, PHONE, SSN, CREDIT_CARD, IP_ADDRESS, IBAN, DATE_OF_BIRTH}

NerKinds == {PERSON, ORG, LOCATION}

Kinds == RegexKinds \cup NerKinds

(***************************************************************************)
(* EntityRegistry                                                          *)
(***************************************************************************)
\* f"<{pii_type}_{counter}>"
FormatToken(pii_type, counter) ==
    <<"<">> \o pii_type \o <<"_">> \o IntToStr(counter) \o <<">">>

\* self._type_counters.get(pii_type, 0)
CounterGet(tc, pii_type) ==
    IF pii_type \in DOMAIN tc THEN tc[pii_type] ELSE 0

\* self._type_counters[pii_type] = counter
CounterSet(tc, pii_type, counter) ==
    [k \in DOMAIN tc \cup {pii_type} |->
        IF k = pii_type THEN counter ELSE tc[k]]

\* A registry value: the three dicts of one EntityRegistry
EmptyRegistry == [v2t |-> <<>>, t2v |-> <<>>, tc |-> <<>>]

\* The key taken as the value is, without stripping
TokenKeyUnstripped(value) == value

\* value.strip(), the key get_or_create_token looks up and stores
TokenKey(value) == Strip(value)

\* get_or_create_token that numbers a new token but does not store the
\* counter back
GetOrCreateTokenCounterLost(r, pii_type, value) ==
    LET key == TokenKey(value) IN
    IF key \in DictKeys(r.v2t)
    THEN [reg |-> r, ret |-> DictGet(r.v2t, key)]
    ELSE LET counter == CounterGet(r.tc, pii_type) + 1
             token   == FormatToken(pii_type, counter)
         IN  [reg |-> [v2t |-> DictSet(r.v2t, key, token),
                       t2v |-> DictSet(r.t2v, token, key),
                       tc  |-> r.tc],
              ret |-> token]

\* get_or_create_token that numbers the tokens with one counter shared by
\* all kinds
GetOrCreateTokenSharedCounter(r, pii_type, value) ==
    LET key == TokenKey(value) IN
    IF key \in DictKeys(r.v2t)
    THEN [reg |-> r, ret |-> DictGet(r.v2t, key)]
    ELSE LET counter == Len(r.v2t) + 1
             token   == FormatToken(pii_type, counter)
         IN  [reg |-> [v2t |-> DictSet(r.v2t, key, token),
                       t2v |-> DictSet(r.t2v, token, key),
                       tc  |-> CounterSet(r.tc, pii_type,
                                          CounterGet(r.tc, pii_type) + 1)],
              ret |-> token]

\* get_or_create_token that keeps one token per kind and value: a value
\* that has a token of another kind gets a new token of the kind asked for
GetOrCreateTokenPerKind(r, pii_type, value) ==
    LET key == TokenKey(value) IN
    IF /\ key \in DictKeys(r.v2t)
       /\ \E n \in 1..Len(r.v2t) :
             DictGet(r.v2t, key) = FormatToken(pii_type, n)
    THEN [reg |-> r, ret |-> DictGet(r.v2t, key)]
    ELSE LET counter == CounterGet(r.tc, pii_type) + 1
             token   == FormatToken(pii_type, counter)
         IN  [reg |-> [v2t |-> DictSet(r.v2t, key, token),
                       t2v |-> DictSet(r.t2v, token, key),
                       tc  |-> CounterSet(r.tc, pii_type, counter)],
              ret |-> token]

\* get_or_create_token that gives every call a new token, also for a value
\* that has one
GetOrCreateTokenRenumbering(r, pii_type, value) ==
    LET key     == TokenKey(value)
        counter == CounterGet(r.tc, pii_type) + 1
        token   == FormatToken(pii_type, counter)
    IN  [reg |-> [v2t |-> DictSet(r.v2t, key, token),
                  t2v |-> DictSet(r.t2v, token, key),
                  tc  |-> CounterSet(r.tc, pii_type, counter)],
         ret |-> token]

\* get_or_create_token(pii_type, value) on registry r:
\* the registry afterwards and the token returned
GetOrCreateToken(r, pii_type, value) ==
    LET key == TokenKey(value) IN
    IF key \in DictKeys(r.v2t)
    THEN [reg |-> r, ret |-> DictGet(r.v2t, key)]
    ELSE LET counter == CounterGet(r.tc, pii_type) + 1
             token   == FormatToken(pii_type, counter)
         IN  [reg |-> [v2t |-> DictSet(r.v2t, key, token),
                       t2v |-> DictSet(r.t2v, token, key),
                       tc  |-> CounterSet(r.tc, pii_type, counter)],
              ret |-> token]

\* unmask(text): one str.replace per item of _token_to_value, in dict order
RECURSIVE UnmaskFrom(_, _, _)
UnmaskFrom(t2v, i, result) ==
    IF i > Len(t2v) THEN result
    ELSE UnmaskFrom(t2v, i + 1, Replace(result, t2v[i][1], t2v[i][2]))

Unmask(r, text) == UnmaskFrom(r.t2v, 1, text)

\* has_entities
HasEntities(r) == Len(r.v2t) > 0

\* A token_to_value property that hands out the dict of the registry itself
TokenToValueShared(r) ==
    [held |-> TRUE, shared |-> TRUE, items |-> r.t2v]

\* The token_to_value property: a new dict with the items of the registry's
TokenToValue(r) ==
    [held |-> TRUE, shared |-> FALSE, items |-> r.t2v]

\* The registry held in the variables
Registry == [v2t |-> value_to_token, t2v |-> token_to_value,
             tc |-> type_counters]

(***************************************************************************)
(* StreamUnmaskBuffer                                                      *)
(***************************************************************************)
MAX_TOKEN_LEN == 30

NORMAL == "normal"

BUFFERING == "buffering"

\* FeedChar without the MAX_TOKEN_LEN test: a candidate is buffered until
\* a '>' arrives, however long it grows
FeedCharUnbounded(r, b, char) ==
    IF b.state = NORMAL
    THEN IF char = "<"
         THEN [b EXCEPT !.state = BUFFERING, !.buffer = <<"<">>]
         ELSE [b EXCEPT !.parts = Append(@, <<char>>)]
    ELSE LET buf == Append(b.buffer, char) IN
         IF char = ">"
         THEN [state  |-> NORMAL,
               buffer |-> <<>>,
               parts  |-> Append(b.parts,
                             IF buf \in DictKeys(r.t2v)
                             THEN DictGet(r.t2v, buf)
                             ELSE buf)]
         ELSE [b EXCEPT !.buffer = buf]

\* FeedChar failing closed: a completed candidate that is no token of the
\* registry is dropped instead of emitted
FeedCharFailClosed(r, b, char) ==
    IF b.state = NORMAL
    THEN IF char = "<"
         THEN [b EXCEPT !.state = BUFFERING, !.buffer = <<"<">>]
         ELSE [b EXCEPT !.parts = Append(@, <<char>>)]
    ELSE LET buf == Append(b.buffer, char) IN
         IF char = ">"
         THEN [state  |-> NORMAL,
               buffer |-> <<>>,
               parts  |-> IF buf \in DictKeys(r.t2v)
                          THEN Append(b.parts, DictGet(r.t2v, buf))
                          ELSE b.parts]
         ELSE IF Len(buf) > MAX_TOKEN_LEN
              THEN [state |-> NORMAL, buffer |-> <<>>,
                    parts |-> Append(b.parts, buf)]
              ELSE [b EXCEPT !.buffer = buf]

\* The loop body of feed that, when the candidate gets too long, releases
\* it but stays in BUFFERING
FeedCharStaysBuffering(r, b, char) ==
    IF b.state = NORMAL
    THEN IF char = "<"
         THEN [b EXCEPT !.state = BUFFERING, !.buffer = <<"<">>]
         ELSE [b EXCEPT !.parts = Append(@, <<char>>)]
    ELSE LET buf == Append(b.buffer, char) IN
         IF char = ">"
         THEN [state  |-> NORMAL,
               buffer |-> <<>>,
               parts  |-> Append(b.parts,
                             IF buf \in DictKeys(r.t2v)
                             THEN DictGet(r.t2v, buf)
                             ELSE buf)]
         ELSE IF Len(buf) > MAX_TOKEN_LEN
              THEN [state |-> BUFFERING, buffer |-> <<>>,
                    parts |-> Append(b.parts, buf)]
              ELSE [b EXCEPT !.buffer = buf]

\* The loop body of feed that starts a new candidate at every '<': in
\* BUFFERING a '<' releases what was pending and becomes the pending text
FeedCharRestarting(r, b, char) ==
    IF b.state = NORMAL
    THEN IF char = "<"
         THEN [b EXCEPT !.state = BUFFERING, !.buffer = <<"<">>]
         ELSE [b EXCEPT !.parts = Append(@, <<char>>)]
    ELSE LET buf == Append(b.buffer, char) IN
         IF char = "<"
         THEN [state |-> BUFFERING, buffer |-> <<"<">>,
               parts |-> Append(b.parts, b.buffer)]
         ELSE IF char = ">"
              THEN [state  |-> NORMAL,
                    buffer |-> <<>>,
                    parts  |-> Append(b.parts,
                                  IF buf \in DictKeys(r.t2v)
                                  THEN DictGet(r.t2v, buf)
                                  ELSE buf)]
              ELSE IF Len(buf) > MAX_TOKEN_LEN
                   THEN [state |-> NORMAL, buffer |-> <<>>,
                         parts |-> Append(b.parts, buf)]
                   ELSE [b EXCEPT !.buffer = buf]

\* The loop body of feed that tests the length of the candidate before it
\* tests for '>'
FeedCharLengthFirst(r, b, char) ==
    IF b.state = NORMAL
    THEN IF char = "<"
         THEN [b EXCEPT !.state = BUFFERING, !.buffer = <<"<">>]
         ELSE [b EXCEPT !.parts = Append(@, <<char>>)]
    ELSE LET buf == Append(b.buffer, char) IN
         IF Len(buf) > MAX_TOKEN_LEN
         THEN [state |-> NORMAL, buffer |-> <<>>,
               parts |-> Append(b.parts, buf)]
         ELSE IF char = ">"
              THEN [state  |-> NORMAL,
                    buffer |-> <<>>,
                    parts  |-> Append(b.parts,
                                  IF buf \in DictKeys(r.t2v)
                                  THEN DictGet(r.t2v, buf)
                                  ELSE buf)]
              ELSE [b EXCEPT !.buffer = buf]

\* One iteration of the loop of feed on character char; b is
\* [state, buffer, parts]
FeedChar(r, b, char) ==
    IF b.state = NORMAL
    THEN IF char = "<"
         THEN [b EXCEPT !.state = BUFFERING, !.buffer = <<"<">>]
         ELSE [b EXCEPT !.parts = Append(@, <<char>>)]
    ELSE LET buf == Append(b.buffer, char) IN
         IF char = ">"
         THEN [state  |-> NORMAL,
               buffer |-> <<>>,
               parts  |-> Append(b.parts,
                             IF buf \in DictKeys(r.t2v)
                             THEN DictGet(r.t2v, buf)
                             ELSE buf)]
         ELSE IF Len(buf) > MAX_TOKEN_LEN
              THEN [state |-> NORMAL, buffer |-> <<>>,
                    parts |-> Append(b.parts, buf)]
              ELSE [b EXCEPT !.buffer = buf]

RECURSIVE FeedLoop(_, _, _)
FeedLoop(r, b, chunk) ==
    IF chunk = <<>> THEN b
    ELSE FeedLoop(r, FeedChar(r, b, Head(chunk)), Tail(chunk))

\* feed that does not keep a candidate across calls: what is pending at
\* the end of the chunk is released with it
FeedNoCarry(r, st, buf, chunk) ==
    LET b == FeedLoop(r, [state |-> st, buffer |-> buf, parts |-> <<>>], chunk)
    IN  [state |-> NORMAL, buffer |-> <<>>, ret |-> Join(b.parts) \o b.buffer]

\* feed that starts every chunk in NORMAL with nothing pending
FeedFreshStart(r, st, buf, chunk) ==
    LET b == FeedLoop(r, [state |-> NORMAL, buffer |-> <<>>,
                          parts |-> <<>>], chunk)
    IN  [state |-> b.state, buffer |-> b.buffer, ret |-> Join(b.parts)]

\* feed(chunk) from (st, buf): the state and buffer afterwards and the
\* string returned
Feed(r, st, buf, chunk) ==
    LET b == FeedLoop(r, [state |-> st, buffer |-> buf, parts |-> <<>>], chunk)
    IN  [state |-> b.state, buffer |-> b.buffer, ret |-> Join(b.parts)]

\* flush that keeps the machine where it is and returns nothing when the
\* pending text is not closed
FlushDropping(st, buf) == [state |-> st, buffer |-> buf, ret |-> <<>>]

\* flush that returns the pending text without the '<' it starts with
FlushWithoutOpen(st, buf) ==
    [state |-> NORMAL, buffer |-> <<>>,
     ret |-> IF buf = <<>> THEN <<>> ELSE Tail(buf)]

\* flush() from (st, buf)
Flush(st, buf) == [state |-> NORMAL, buffer |-> <<>>, ret |-> buf]

(***************************************************************************)
(* Regular expressions of _PII_PATTERNS.                                   *)
(***************************************************************************)
LowerChars ==
    {"a", "b", "c", "d", "e", "f", "g", "h", "i", "j", "k", "l", "m",
     "n", "o", "p", "q", "r", "s", "t", "u", "v", "w", "x", "y", "z"}

UpperChars ==
    {"A", "B", "C", "D", "E", "F", "G", "H", "I", "J", "K", "L", "M",
     "N", "O", "P", "Q", "R", "S", "T", "U", "V", "W", "X", "Y", "Z"}

DigitChars == {"0", "1", "2", "3", "4", "5", "6", "7", "8", "9"}

\* [A-Za-z]
LetterChars == LowerChars \cup UpperChars

\* \w
WordChars == LetterChars \cup DigitChars \cup {"_"}

\* [A-Za-z0-9._%+-]
EmailLocalChars == LetterChars \cup DigitChars \cup {".", "_", "%", "+", "-"}

\* [A-Za-z0-9.-]
EmailDomainChars == LetterChars \cup DigitChars \cup {".", "-"}

\* Whether the character at position i (from 1) of text is a word character
IsWordAt(text, i) == i \in DOMAIN text /\ text[i] \in WordChars

\* \b just before position i
WordBoundary(text, i) == IsWordAt(text, i - 1) # IsWordAt(text, i)

\* The first position from i on whose character is not in class
RECURSIVE RunEnd(_, _, _)
RunEnd(text, i, class) ==
    IF i \in DOMAIN text /\ text[i] \in class
    THEN RunEnd(text, i + 1, class)
    ELSE i

\* Whether \.[A-Za-z]{2,}\b matches at the '.' of position k
EmailTldAt(text, k) ==
    /\ k \in DOMAIN text
    /\ text[k] = "."
    /\ RunEnd(text, k + 1, LetterChars) - (k + 1) >= 2
    /\ WordBoundary(text, RunEnd(text, k + 1, LetterChars))

\* The match of \b[A-Za-z0-9._%+-]+@[A-Za-z0-9.-]+\.[A-Za-z]{2,}\b that
\* starts at position i: the position after it, 0 when there is none.
\* Every quantifier is greedy: the local part runs up to the '@', the
\* domain takes the last '.' after which the end of the pattern matches.
EmailMatchEnd(text, i) ==
    LET at == RunEnd(text, i, EmailLocalChars) IN
    IF ~ ( /\ WordBoundary(text, i)
           /\ at > i
           /\ at \in DOMAIN text
           /\ text[at] = "@" )
    THEN 0
    ELSE LET dots == {k \in (at + 2)..(RunEnd(text, at + 1, EmailDomainChars) - 1) :
                         EmailTldAt(text, k)}
         IN  IF dots = {} THEN 0
             ELSE LET k == CHOOSE m \in dots : \A o \in dots : o <= m
                  IN  RunEnd(text, k + 1, LetterChars)

\* pattern.finditer(text) for the EMAIL pattern, from position pos on: the
\* findings (pii_type, m.group(), m.start(), m.end()), offsets from 0
RECURSIVE EmailFinditer(_, _)
EmailFinditer(text, pos) ==
    IF pos > Len(text) THEN <<>>
    ELSE LET e == EmailMatchEnd(text, pos) IN
         IF e = 0 THEN EmailFinditer(text, pos + 1)
         ELSE <<[pii_type |-> EMAIL, value |-> SubSeq(text, pos, e - 1),
                 start |-> pos - 1, end |-> e - 1]>>
              \o EmailFinditer(text, e)

\* The types of _PII_PATTERNS, in the order of the list
PatternOrder ==
    <<EMAIL, PHONE, SSN, CREDIT_CARD, IP_ADDRESS, IBAN, DATE_OF_BIRTH>>

\* pattern.finditer(text) for the pattern of pii_type.  The texts of this
\* model are built from the pieces of MaskPieces: they hold fewer than
\* eight digits and no '-', '/' or '(', no digit is followed by a '.', and
\* no two capitals are followed by a digit, so PHONE, SSN, CREDIT_CARD,
\* IP_ADDRESS, IBAN and DATE_OF_BIRTH match nowhere in them.
PatternFinditer(pii_type, text) ==
    IF pii_type = EMAIL THEN EmailFinditer(text, 1) ELSE <<>>

\* _detect_regex(text)
RECURSIVE DetectRegexFrom(_, _)
DetectRegexFrom(text, p) ==
    IF p > Len(PatternOrder) THEN <<>>
    ELSE PatternFinditer(PatternOrder[p], text) \o DetectRegexFrom(text, p + 1)

DetectRegex(text) == DetectRegexFrom(text, 1)

(***************************************************************************)
(* PIIMaskingService                                                       *)
(***************************************************************************)
\* _SPACY_LABEL_MAP.get(label): the PII type, <<>> for None
SpacyLabelMap(label) ==
    CASE label = "PERSON" -> PERSON
      [] label = "ORG"    -> ORG
      [] label = "GPE"    -> LOCATION
      [] OTHER            -> <<>>

\* The condition of _get_nlp under which spacy.load is called
LoadTried(svc) == svc.nlp = "None" /\ svc.use_spacy

\* _get_nlp that leaves the service as it was when the load fails, so that
\* the next call tries again
GetNlpRetrying(svc, load_ok) ==
    IF LoadTried(svc) /\ load_ok
    THEN [svc EXCEPT !.nlp = "model"]
    ELSE svc

\* _get_nlp() on service svc = [use_spacy, nlp]; load_ok tells whether
\* spacy.load succeeds when it is tried
GetNlp(svc, load_ok) ==
    IF LoadTried(svc)
    THEN IF load_ok
         THEN [svc EXCEPT !.nlp = "model"]
         ELSE [use_spacy |-> FALSE, nlp |-> "None"]
    ELSE svc

\* text[start:end], offsets from 0
Slice(text, start, end) == SubSeq(text, start + 1, end)

\* The loop of _detect_ner over doc.ents; each entity is
\* [label_, start_char, end_char] and its text is text[start_char:end_char]
RECURSIVE NerFindings(_, _)
NerFindings(text, ents) ==
    IF ents = <<>> THEN <<>>
    ELSE LET ent      == Head(ents)
             pii_type == SpacyLabelMap(ent.label_)
             ent_text == Slice(text, ent.start_char, ent.end_char)
         IN  (IF pii_type # <<>> /\ Len(Strip(ent_text)) > 1
              THEN <<[pii_type |-> pii_type, value |-> Strip(ent_text),
                      start |-> ent.start_char, end |-> ent.end_char]>>
              ELSE <<>>)
             \o NerFindings(text, Tail(ents))

\* _detect_ner(text) on service svc: the service afterwards and the findings
DetectNer(svc, text, ents, load_ok) ==
    LET svc2 == GetNlp(svc, load_ok) IN
    [svc |-> svc2,
     findings |-> IF svc2.nlp = "None" THEN <<>> ELSE NerFindings(text, ents)]

\* The sort key (f[2], -(f[3] - f[2])) of a before that of b
KeyLess(a, b) ==
    \/ a.start < b.start
    \/ a.start = b.start /\ (a.end - a.start) > (b.end - b.start)

\* f put into the sorted list after every element whose key is not greater
RECURSIVE InsertSorted(_, _)
InsertSorted(sorted, f) ==
    IF sorted = <<>> THEN <<f>>
    ELSE IF KeyLess(f, Head(sorted))
         THEN <<f>> \o sorted
         ELSE <<Head(sorted)>> \o InsertSorted(Tail(sorted), f)

\* findings.sort(key=...): a stable sort
RECURSIVE SortFindings(_)
SortFindings(findings) ==
    IF findings = <<>> THEN <<>>
    ELSE InsertSorted(SortFindings(SubSeq(findings, 1, Len(findings) - 1)),
                      findings[Len(findings)])

\* A de-duplication loop that keeps every finding
FilterFindingsKeepAll(findings, last_end) == findings

\* The de-duplication loop: a finding is kept when it starts at or after
\* the end of the last kept one
RECURSIVE FilterFindings(_, _)
FilterFindings(findings, last_end) ==
    IF findings = <<>> THEN <<>>
    ELSE IF Head(findings).start >= last_end
         THEN <<Head(findings)>>
              \o FilterFindings(Tail(findings), Head(findings).end)
         ELSE FilterFindings(Tail(findings), last_end)

\* A replacement loop that goes from the first kept finding up to the last
RECURSIVE ReplaceLoopForward(_, _, _)
ReplaceLoopForward(filtered, n, acc) ==
    IF n = 0 THEN acc
    ELSE LET f == filtered[Len(filtered) - n + 1]
             g == GetOrCreateToken(acc.reg, f.pii_type, f.value)
         IN  ReplaceLoopForward(filtered, n - 1,
                 [reg    |-> g.reg,
                  result |-> Slice(acc.result, 0, f.start) \o g.ret
                             \o Slice(acc.result, f.end, Len(acc.result))])

\* The replacement loop over reversed(filtered), from the last kept finding
\* down to the first: acc is [reg, result]
RECURSIVE ReplaceLoop(_, _, _)
ReplaceLoop(filtered, n, acc) ==
    IF n = 0 THEN acc
    ELSE LET f == filtered[n]
             g == GetOrCreateToken(acc.reg, f.pii_type, f.value)
         IN  ReplaceLoop(filtered, n - 1,
                 [reg    |-> g.reg,
                  result |-> Slice(acc.result, 0, f.start) \o g.ret
                             \o Slice(acc.result, f.end, Len(acc.result))])

\* mask_text that strips the short texts it returns early
MaskTextShortStripped(svc, r, text, ents, load_ok) ==
    IF Len(text) < 2
    THEN [svc |-> svc, reg |-> r, ret |-> Strip(text),
          findings |-> <<>>, filtered |-> <<>>]
    ELSE LET ner      == IF svc.use_spacy
                         THEN DetectNer(svc, text, ents, load_ok)
                         ELSE [svc |-> svc, findings |-> <<>>]
             findings == SortFindings(DetectRegex(text) \o ner.findings)
             filtered == FilterFindings(findings, -1)
             done     == ReplaceLoop(filtered, Len(filtered),
                                     [reg |-> r, result |-> text])
         IN  [svc |-> ner.svc, reg |-> done.reg, ret |-> done.result,
              findings |-> findings, filtered |-> filtered]

\* mask_text that registers the whole text when it finds nothing in it
MaskTextWholeText(svc, r, text, ents, load_ok) ==
    IF Len(text) < 2
    THEN [svc |-> svc, reg |-> r, ret |-> text,
          findings |-> <<>>, filtered |-> <<>>]
    ELSE LET ner      == IF svc.use_spacy
                         THEN DetectNer(svc, text, ents, load_ok)
                         ELSE [svc |-> svc, findings |-> <<>>]
             findings == SortFindings(DetectRegex(text) \o ner.findings)
             filtered == FilterFindings(findings, -1)
             done     == ReplaceLoop(filtered, Len(filtered),
                                     [reg |-> r, result |-> text])
             whole    == GetOrCreateToken(r, PERSON, text)
         IN  IF findings = <<>>
             THEN [svc |-> ner.svc, reg |-> whole.reg, ret |-> text,
                   findings |-> findings, filtered |-> filtered]
             ELSE [svc |-> ner.svc, reg |-> done.reg, ret |-> done.result,
                   findings |-> findings, filtered |-> filtered]

\* mask_text that requests the tokens of the kept findings from the first
\* to the last before it replaces them from the last to the first
MaskTextNumberedForward(svc, r, text, ents, load_ok) ==
    IF Len(text) < 2
    THEN [svc |-> svc, reg |-> r, ret |-> text,
          findings |-> <<>>, filtered |-> <<>>]
    ELSE LET ner      == IF svc.use_spacy
                         THEN DetectNer(svc, text, ents, load_ok)
                         ELSE [svc |-> svc, findings |-> <<>>]
             findings == SortFindings(DetectRegex(text) \o ner.findings)
             filtered == FilterFindings(findings, -1)
             numbered == ReplaceLoopForward(filtered, Len(filtered),
                                            [reg |-> r, result |-> text])
             done     == ReplaceLoop(filtered, Len(filtered),
                                     [reg |-> numbered.reg, result |-> text])
         IN  [svc |-> ner.svc, reg |-> done.reg, ret |-> done.result,
              findings |-> findings, filtered |-> filtered]

\* mask_text(text, registry) on service svc: the service and the registry
\* afterwards, the text returned, and the findings before and after the
\* de-duplication
MaskText(svc, r, text, ents, load_ok) ==
    IF Len(text) < 2
    THEN [svc |-> svc, reg |-> r, ret |-> text,
          findings |-> <<>>, filtered |-> <<>>]
    ELSE LET ner      == IF svc.use_spacy
                         THEN DetectNer(svc, text, ents, load_ok)
                         ELSE [svc |-> svc, findings |-> <<>>]
             findings == SortFindings(DetectRegex(text) \o ner.findings)
             filtered == FilterFindings(findings, -1)
             done     == ReplaceLoop(filtered, Len(filtered),
                                     [reg |-> r, result |-> text])
         IN  [svc |-> ner.svc, reg |-> done.reg, ret |-> done.result,
              findings |-> findings, filtered |-> filtered]

\* A create_registry that hands out the registry created first, once one
\* exists
CreateRegistryShared(h) ==
    IF \E i \in DOMAIN h : h[i].kind = "registry"
    THEN [heap |-> h,
          ref  |-> CHOOSE i \in DOMAIN h :
                      /\ h[i].kind = "registry"
                      /\ \A j \in 1..(i - 1) : h[j].kind # "registry"]
    ELSE [heap |-> Append(h, [kind |-> "registry", reg |-> EmptyRegistry]),
          ref  |-> Len(h) + 1]

\* create_registry() with the objects h in existence: EntityRegistry() is a
\* new object with three new dicts; the objects afterwards and the
\* reference returned
CreateRegistry(h) ==
    [heap |-> Append(h, [kind |-> "registry", reg |-> EmptyRegistry]),
     ref  |-> Len(h) + 1]

\* create_stream_buffer(registry): a new StreamUnmaskBuffer that keeps the
\* reference to the registry
CreateStreamBufferOn(h, registry) ==
    [heap |-> Append(h, [kind |-> "buffer", registry |-> registry,
                         state |-> NORMAL, buffer |-> <<>>]),
     ref  |-> Len(h) + 1]

\* A handler that includes the instruction whenever masking is enabled
InstructionIncludedWhenEnabled(pii_enabled, r) == pii_enabled

\* The condition under which the chat handlers put PII_SYSTEM_INSTRUCTION
\* into the messages: registry is not None and registry.has_entities, the
\* registry being None when masking is not enabled
InstructionIncluded(pii_enabled, r) == pii_enabled /\ HasEntities(r)

\* The service held in the variables
Service == [use_spacy |-> use_spacy, nlp |-> nlp]

(***************************************************************************)
(* Inputs of the streaming turn.                                           *)
(***************************************************************************)
EmailA == <<"a", "@", "a", ".", "a", "a">>

EmailB == <<"b", "@", "a", ".", "a", "a">>

\* The values registered before a response is streamed; the second one
\* carries surrounding whitespace
StreamValues == {EmailA, <<" ">> \o EmailB}

StreamKinds == {EMAIL}

\* 29 characters that are neither '<' nor '>'
Filler == [i \in 1..(MAX_TOKEN_LEN - 1) |-> "a"]

\* The fragments a stream delivers: single characters, a whole token, a
\* token cut in two and in three, a token never registered first, and a
\* long run
Chunks ==
    { <<"<">>, <<">">>, <<"a">>, Filler,
      FormatToken(EMAIL, 1), FormatToken(EMAIL, 2),
      <<"<", "E", "M">>, <<"A", "I", "L", "_", "1", ">">>,
      <<"E", "M", "A", "I", "L", "_", "1">> }

(***************************************************************************)
(* The streaming turn: the registry is filled (the masking pass), a stream *)
(* buffer is created on it, fragments are fed, and the stream is flushed.  *)
(***************************************************************************)
NoCall == [op |-> "none"]

\* No thread is inside the service, nothing was handed out, and no chat
\* handler runs
NoThreads == <<>>

NoHandout == [held |-> FALSE]

NoTurns == <<>>

NoChat == [pc |-> "none"]

Init ==
    /\ value_to_token = <<>>
    /\ token_to_value = <<>>
    /\ type_counters = <<>>
    /\ state = NORMAL
    /\ buffer = <<>>
    /\ use_spacy = TRUE
    /\ nlp = "None"
    /\ phase = "mask"
    /\ calls = <<>>
    /\ last = NoCall
    /\ loads = <<>>
    /\ pc = NoThreads
    /\ handout = NoHandout
    /\ heap = <<>>
    /\ turns = NoTurns
    /\ chat = NoChat

\* registry.get_or_create_token(pii_type, value)
GetOrCreateTokenCall(pii_type, value) ==
    /\ phase = "mask"
    /\ \E g \in {GetOrCreateToken(Registry, pii_type, value)} :
       /\ Len(g.reg.v2t) <= MaxEntities
       /\ value_to_token' = g.reg.v2t
       /\ token_to_value' = g.reg.t2v
       /\ type_counters' = g.reg.tc
       /\ last' = [op |-> "get_or_create_token", pii_type |-> pii_type,
                   value |-> value, ret |-> g.ret, pre |-> Registry]
    /\ UNCHANGED <<buffer_vars, service_vars, phase, calls, loads>>
    /\ UNCHANGED <<thread_vars, access_vars, turn_vars, chat_vars>>

\* PIIMaskingService.create_stream_buffer(registry)
CreateStreamBuffer ==
    /\ phase = "mask"
    /\ phase' = "stream"
    /\ state' = NORMAL
    /\ buffer' = <<>>
    /\ calls' = <<>>
    /\ last' = NoCall
    /\ UNCHANGED <<registry_vars, service_vars, loads>>
    /\ UNCHANGED <<thread_vars, access_vars, turn_vars, chat_vars>>

\* buffer.feed(chunk)
FeedCall(chunk) ==
    /\ phase = "stream"
    /\ \E f \in {Feed(Registry, state, buffer, chunk)} :
       /\ state' = f.state
       /\ buffer' = f.buffer
       /\ calls' = Append(calls, [op |-> "feed", chunk |-> chunk,
                                  ret |-> f.ret, pre_state |-> state,
                                  pre_buffer |-> buffer])
    /\ UNCHANGED <<registry_vars, service_vars, phase, last, loads>>
    /\ UNCHANGED <<thread_vars, access_vars, turn_vars, chat_vars>>

\* buffer.flush(), at the end of the stream
FlushCall ==
    /\ phase = "stream"
    /\ \E f \in {Flush(state, buffer)} :
       /\ state' = f.state
       /\ buffer' = f.buffer
       /\ calls' = Append(calls, [op |-> "flush", chunk |-> <<>>,
                                  ret |-> f.ret, pre_state |-> state,
                                  pre_buffer |-> buffer])
    /\ phase' = "done"
    /\ UNCHANGED <<registry_vars, service_vars, last, loads>>
    /\ UNCHANGED <<thread_vars, access_vars, turn_vars, chat_vars>>

Next ==
    \/ \E pii_type \in StreamKinds, value \in StreamValues :
          GetOrCreateTokenCall(pii_type, value)
    \/ CreateStreamBuffer
    \/ \E chunk \in Chunks : Len(calls) < MaxFeeds /\ FeedCall(chunk)
    \/ FlushCall

Spec == Init /\ [][Next]_vars

(***************************************************************************)
(* The history of the stream: what was fed and what was returned.          *)
(***************************************************************************)
\* The input fragments of calls i..j, concatenated
FedBetween(i, j) == Join([k \in 1..(j - i + 1) |-> calls[i + k - 1].chunk])

\* All input fed so far, concatenated
FedText == FedBetween(1, Len(calls))

\* All output returned so far by feed and flush, concatenated
EmittedText == Join([k \in DOMAIN calls |-> calls[k].ret])

\* The state and the pending buffer call i left behind
PostState(i) == IF i < Len(calls) THEN calls[i + 1].pre_state ELSE state

PostBuffer(i) == IF i < Len(calls) THEN calls[i + 1].pre_buffer ELSE buffer

\* The position of the first '>' of chunk, 0 when it has none
FirstClose(chunk) ==
    IF \E k \in DOMAIN chunk : chunk[k] = ">"
    THEN CHOOSE k \in DOMAIN chunk :
            chunk[k] = ">" /\ \A m \in 1..(k - 1) : chunk[m] # ">"
    ELSE 0

FedAfterFirst == FedBetween(2, Len(calls))

\* The fragments that continue token t after what was fed of it
TokenFragments(t) ==
    IF StartsWith(t, FedAfterFirst)
    THEN {SubSeq(t, Len(FedAfterFirst) + 1, k) :
             k \in (Len(FedAfterFirst) + 1)..Len(t)}
    ELSE {}

SplitNext ==
    \/ \E pii_type \in StreamKinds, value \in StreamValues :
          GetOrCreateTokenCall(pii_type, value)
    \/ CreateStreamBuffer
    \/ \E chunk \in Chunks \cup {<<>>} : calls = <<>> /\ FeedCall(chunk)
    \/ \E t \in DictKeys(token_to_value) :
          \E chunk \in TokenFragments(t) : calls # <<>> /\ FeedCall(chunk)
    \/ FlushCall

SplitSpec == Init /\ [][SplitNext]_vars

(***************************************************************************)
(* C7. Split-token reconstruction: when consecutive non-empty fragments,   *)
(* two or more, fed from NORMAL, concatenate to a token of the registry,   *)
(* every feed before the last returns the empty string and the last one,   *)
(* which delivers '>', returns the original value and leaves the machine   *)
(* in NORMAL with nothing pending.                                         *)
(***************************************************************************)
IsTokenSplit(i, j) ==
    /\ i < j
    /\ \A k \in i..j : calls[k].op = "feed" /\ calls[k].chunk # <<>>
    /\ calls[i].pre_state = NORMAL
    /\ FedBetween(i, j) \in DictKeys(token_to_value)

C7_SplitTokenReconstruction ==
    \A i \in DOMAIN calls : \A j \in DOMAIN calls :
        IsTokenSplit(i, j) =>
            /\ \A k \in i..(j - 1) : calls[k].ret = <<>>
            /\ calls[j].ret = DictGet(token_to_value, FedBetween(i, j))
            /\ PostState(j) = NORMAL
            /\ PostBuffer(j) = <<>>

\* The second token of the registry arrived one character per fragment,
\* after a first fragment that was passed through
C7_Witness ==
    /\ Len(token_to_value) = 2
    /\ Len(calls) > 1
    /\ calls[1].chunk # <<>>
    /\ IsTokenSplit(2, Len(calls))
    /\ FedBetween(2, Len(calls)) = token_to_value[2][1]
    /\ \A k \in 2..Len(calls) : Len(calls[k].chunk) = 1

(***************************************************************************)
(* C8. Overlong-buffer fallback: the pending buffer never holds more than  *)
(* MAX_TOKEN_LEN characters after a call; a feed that brings a candidate   *)
(* to MAX_TOKEN_LEN + 1 characters without a '>' returns those characters  *)
(* literally, and when the fragment ends there the buffer is empty and     *)
(* the machine is back in NORMAL.                                          *)
(***************************************************************************)
\* Call i is a feed in BUFFERING whose chunk brings the candidate beyond
\* MAX_TOKEN_LEN before any '>'
Overflows(i) ==
    LET n == MAX_TOKEN_LEN + 1 - Len(calls[i].pre_buffer) IN
    /\ calls[i].op = "feed"
    /\ calls[i].pre_state = BUFFERING
    /\ n <= Len(calls[i].chunk)
    /\ \A m \in 1..n : calls[i].chunk[m] # ">"

C8_OverlongFallback ==
    /\ Len(buffer) <= MAX_TOKEN_LEN
    /\ \A i \in DOMAIN calls :
          Overflows(i) =>
             LET n == MAX_TOKEN_LEN + 1 - Len(calls[i].pre_buffer) IN
             /\ StartsWith(calls[i].ret,
                           calls[i].pre_buffer \o SubSeq(calls[i].chunk, 1, n))
             /\ n = Len(calls[i].chunk) =>
                   PostState(i) = NORMAL /\ PostBuffer(i) = <<>>

\* A candidate of exactly MAX_TOKEN_LEN characters received one more
C8_Witness ==
    \E i \in DOMAIN calls :
        /\ Overflows(i)
        /\ Len(calls[i].pre_buffer) = MAX_TOKEN_LEN
        /\ Len(calls[i].chunk) = 1

(***************************************************************************)
(* C9. End-of-stream flush: flush returns exactly the pending characters,  *)
(* and leaves the machine in NORMAL with nothing pending; a flush in       *)
(* NORMAL returns the empty string.                                        *)
(***************************************************************************)
C9_FlushReturnsPending ==
    \A i \in DOMAIN calls :
        calls[i].op = "flush" =>
            /\ calls[i].ret = calls[i].pre_buffer
            /\ PostState(i) = NORMAL
            /\ PostBuffer(i) = <<>>
            /\ calls[i].pre_state = NORMAL => calls[i].ret = <<>>

\* The stream ended in the middle of a token of the registry
C9_Witness ==
    \E i \in DOMAIN calls :
        /\ calls[i].op = "flush"
        /\ calls[i].pre_state = BUFFERING
        /\ Len(calls[i].pre_buffer) > 1
        /\ \E t \in DictKeys(token_to_value) : StartsWith(t, calls[i].pre_buffer)

(***************************************************************************)
(* C10. Fail-open on unknown placeholders: when a '>' completes a          *)
(* candidate in BUFFERING, feed returns the candidate itself if it is no   *)
(* token of the registry and the token's value if it is one; in both cases *)
(* the buffer is then empty and the machine in NORMAL.                     *)
(***************************************************************************)
\* Call i is a feed in BUFFERING whose chunk closes the candidate, at the
\* chunk's first '>', before the candidate is too long
Closes(i) ==
    /\ calls[i].op = "feed"
    /\ calls[i].pre_state = BUFFERING
    /\ FirstClose(calls[i].chunk) > 0
    /\ Len(calls[i].pre_buffer) + FirstClose(calls[i].chunk)
          <= MAX_TOKEN_LEN + 1

\* The candidate call i looks up
Candidate(i) ==
    calls[i].pre_buffer \o SubSeq(calls[i].chunk, 1, FirstClose(calls[i].chunk))

C10_FailOpen ==
    \A i \in DOMAIN calls :
        Closes(i) =>
            /\ IF Candidate(i) \in DictKeys(token_to_value)
               THEN StartsWith(calls[i].ret,
                               DictGet(token_to_value, Candidate(i)))
               ELSE StartsWith(calls[i].ret, Candidate(i))
            /\ FirstClose(calls[i].chunk) = Len(calls[i].chunk) =>
                  PostState(i) = NORMAL /\ PostBuffer(i) = <<>>

\* A '>' completed a candidate that is no token while the registry holds
\* tokens
C10_Witness ==
    \E i \in DOMAIN calls :
        /\ Closes(i)
        /\ Candidate(i) \notin DictKeys(token_to_value)
        /\ token_to_value # <<>>
        /\ calls[i].ret = Candidate(i)

(***************************************************************************)
(* The registry alone: any sequence of get_or_create_token calls, with     *)
(* values of several kinds, some of them differing only in surrounding     *)
(* whitespace.                                                             *)
(***************************************************************************)
Jo == <<"J", "o">>

RegistryValues ==
    { EmailA, <<" ">> \o EmailA, EmailA \o <<"\n">>, EmailB, Jo,
      <<" ">> \o Jo \o <<" ">>, <<" ">> }

RegistryKinds == {EMAIL, PERSON, IP_ADDRESS}

RegistryNext ==
    \E pii_type \in RegistryKinds, value \in RegistryValues :
        GetOrCreateTokenCall(pii_type, value)

RegistrySpec == Init /\ [][RegistryNext]_vars

\* The last call was get_or_create_token with a value seen before
LastSeenBefore ==
    /\ last.op = "get_or_create_token"
    /\ Strip(last.value) \in DictKeys(last.pre.v2t)

\* The last call was get_or_create_token with a value not seen before
LastNew ==
    /\ last.op = "get_or_create_token"
    /\ Strip(last.value) \notin DictKeys(last.pre.v2t)

(***************************************************************************)
(* C4. Determinism: get_or_create_token for a value whose stripped form    *)
(* was seen before returns the token that value has and leaves the         *)
(* registry as it was: no entry is added, no counter moves.                *)
(***************************************************************************)
C4_Determinism ==
    LastSeenBefore =>
        /\ last.ret = DictGet(last.pre.v2t, Strip(last.value))
        /\ Registry = last.pre

\* A value seen before came back with other surrounding whitespace, under
\* another kind
C4_Witness ==
    /\ LastSeenBefore
    /\ last.value # Strip(last.value)
    /\ last.value \notin DictKeys(last.pre.v2t)
    /\ last.ret # FormatToken(last.pii_type, 1)

(***************************************************************************)
(* C5. Bidirectionality: the value-to-token and token-to-value maps are    *)
(* inverse bijections of the same size.                                    *)
(***************************************************************************)
C5_Bidirectional ==
    /\ Len(value_to_token) = Len(token_to_value)
    /\ Cardinality(DictKeys(value_to_token)) = Len(value_to_token)
    /\ Cardinality(DictKeys(token_to_value)) = Len(token_to_value)
    /\ Cardinality(DictValues(value_to_token)) = Len(value_to_token)
    /\ Cardinality(DictValues(token_to_value)) = Len(token_to_value)
    /\ \A v \in DictKeys(value_to_token) :
          /\ DictGet(value_to_token, v) \in DictKeys(token_to_value)
          /\ DictGet(token_to_value, DictGet(value_to_token, v)) = v
    /\ \A t \in DictKeys(token_to_value) :
          /\ DictGet(token_to_value, t) \in DictKeys(value_to_token)
          /\ DictGet(value_to_token, DictGet(token_to_value, t)) = t

\* Three values are registered, two of them of one kind
C5_Witness ==
    /\ Len(value_to_token) = 3
    /\ \E k \in RegistryKinds : CounterGet(type_counters, k) = 2

(***************************************************************************)
(* C6. Sequential numbering: the tokens of the registry are exactly        *)
(* <K_1> .. <K_n> for every kind K, n being the counter of K; a new value  *)
(* of kind K gets <K_n+1> and moves the counter of K alone.                *)
(***************************************************************************)
NumberedTokens(tc) ==
    UNION { {FormatToken(k, n) : n \in 1..CounterGet(tc, k)} : k \in Kinds }

C6_SequentialNumbering ==
    /\ DictKeys(token_to_value) = NumberedTokens(type_counters)
    /\ \A k \in Kinds :
          Cardinality({FormatToken(k, n) : n \in 1..CounterGet(type_counters, k)})
             = CounterGet(type_counters, k)
    /\ Len(token_to_value) = Cardinality(NumberedTokens(type_counters))
    /\ LastNew =>
          /\ last.ret = FormatToken(last.pii_type,
                                    CounterGet(last.pre.tc, last.pii_type) + 1)
          /\ last.ret \notin DictKeys(last.pre.t2v)
          /\ \A k \in Kinds :
                CounterGet(type_counters, k) =
                    CounterGet(last.pre.tc, k) + (IF k = last.pii_type THEN 1 ELSE 0)

\* A second value of one kind was registered after a value of another kind
C6_Witness ==
    /\ LastNew
    /\ CounterGet(type_counters, last.pii_type) = 2
    /\ \E k \in RegistryKinds : k # last.pii_type /\ CounterGet(last.pre.tc, k) = 1

(***************************************************************************)
(* The masking pass: mask_text on a fresh registry, then once more on the  *)
(* same registry, as the chat paths mask the query and then the context.   *)
(***************************************************************************)
\* The pieces texts are made of: an e-mail address, a blank, a digit and a
\* string that has the shape of a token
MaskPieces == {EmailA, <<" ">>, <<"1">>, FormatToken(EMAIL, 1)}

\* The sequences of at most n pieces
RECURSIVE PieceSeqs(_)
PieceSeqs(n) ==
    IF n = 0 THEN {<<>>}
    ELSE LET shorter == PieceSeqs(n - 1) IN
         shorter \cup {Append(ps, p) : ps \in shorter, p \in MaskPieces}

\* The offset, from 0, at which piece i of ps starts in Join(ps)
PieceOffset(ps, i) == Len(Join(SubSeq(ps, 1, i - 1)))

\* What the classifier may report for the text Join(ps): nothing, or one
\* entity spanning one piece or two adjacent ones
NerLabels == {"PERSON", "GPE"}

\* The runs of one piece or two adjacent pieces of ps, as <<first, last>>
PieceRuns(ps) ==
    {run \in (DOMAIN ps) \X (DOMAIN ps) :
        run[2] >= run[1] /\ run[2] <= run[1] + 1}

Entities(ps) ==
    {<<>>} \cup
    { <<[label_ |-> l, start_char |-> PieceOffset(ps, run[1]),
         end_char |-> PieceOffset(ps, run[2] + 1)]>> :
        l \in NerLabels, run \in PieceRuns(ps) }

MaskInit ==
    /\ value_to_token = <<>>
    /\ token_to_value = <<>>
    /\ type_counters = <<>>
    /\ state = NORMAL
    /\ buffer = <<>>
    /\ use_spacy \in BOOLEAN
    /\ nlp = "None"
    /\ phase = "mask"
    /\ calls = <<>>
    /\ last = NoCall
    /\ loads = <<>>
    /\ pc = NoThreads
    /\ handout = NoHandout
    /\ heap = <<>>
    /\ turns = NoTurns
    /\ chat = NoChat

\* pii_svc.mask_text(text, registry)
MaskTextCall(text, ents, load_ok) ==
    /\ phase \in {"mask", "masked"}
    /\ \E m \in {MaskText(Service, Registry, text, ents, load_ok)} :
       /\ value_to_token' = m.reg.v2t
       /\ token_to_value' = m.reg.t2v
       /\ type_counters' = m.reg.tc
       /\ use_spacy' = m.svc.use_spacy
       /\ nlp' = m.svc.nlp
       /\ last' = [op |-> "mask_text", text |-> text, ret |-> m.ret,
                   pre |-> Registry, pre_svc |-> Service,
                   findings |-> m.findings, filtered |-> m.filtered]
    /\ loads' = IF Len(text) >= 2 /\ use_spacy /\ LoadTried(Service)
                 THEN Append(loads, load_ok) ELSE loads
    /\ phase' = IF phase = "mask" THEN "masked" ELSE "remasked"
    /\ UNCHANGED <<buffer_vars, calls>>
    /\ UNCHANGED <<thread_vars, access_vars, turn_vars, chat_vars>>

\* The texts of a second call: the first text again, the masked text the
\* first call returned, or a single piece
FollowTexts == {last.text, last.ret} \cup MaskPieces

MaskNext ==
    \/ /\ phase = "mask"
       /\ \E ps \in PieceSeqs(MaxPieces) :
             \E ents \in Entities(ps), load_ok \in BOOLEAN :
                MaskTextCall(Join(ps), ents, load_ok)
    \/ /\ phase = "masked"
       /\ \E text \in FollowTexts, load_ok \in BOOLEAN :
             MaskTextCall(text, <<>>, load_ok)

MaskSpec == MaskInit /\ [][MaskNext]_vars

(***************************************************************************)
(* C2. Round-trip: unmasking, with the same registry, the text mask_text   *)
(* returned for a fresh registry gives the input text back.  Stated for    *)
(* the service without classifier, where the regular expressions alone     *)
(* decide the findings.                                                    *)
(***************************************************************************)
C2_RoundTrip ==
    ( /\ last.op = "mask_text"
      /\ last.pre = EmptyRegistry
      /\ ~ last.pre_svc.use_spacy )
    => Unmask(Registry, last.ret) = last.text

(***************************************************************************)
(* C3. PII absence: no value that the last mask_text call registered       *)
(* occurs in the masked text it returned.  Stated for the service without  *)
(* classifier.                                                             *)
(***************************************************************************)
C3_PIIAbsence ==
    ( /\ last.op = "mask_text"
      /\ ~ last.pre_svc.use_spacy )
    => \A v \in DictKeys(value_to_token) \ DictKeys(last.pre.v2t) :
          ~ Contains(last.ret, v)

(***************************************************************************)
(* C11. Short texts: a mask_text call on a text of fewer than 2            *)
(* characters, the empty text included, returns the text as it is and      *)
(* leaves the mappings and counters of the registry as they were,          *)
(* whatever the registry held before the call.                             *)
(***************************************************************************)
C11_ShortTextUnchanged ==
    ( /\ last.op = "mask_text"
      /\ Len(last.text) < 2 )
    => /\ last.ret = last.text
       /\ Registry = last.pre

\* A one-character text was masked on a registry that held an entity
C11_Witness ==
    /\ last.op = "mask_text"
    /\ Len(last.text) = 1
    /\ last.text = <<" ">>
    /\ HasEntities(last.pre)
    /\ last.ret = last.text

(***************************************************************************)
(* C12. No-PII passthrough: a mask_text call whose detectors produce no    *)
(* finding returns the text as it is and leaves the registry as it was; a  *)
(* registry that was fresh before the call is empty after it, has_entities *)
(* is false and it reports no entity.                                      *)
(***************************************************************************)
C12_NoPIIPassthrough ==
    ( /\ last.op = "mask_text"
      /\ last.findings = <<>> )
    => /\ last.ret = last.text
       /\ Registry = last.pre
       /\ last.pre = EmptyRegistry
            => ~ HasEntities(Registry) /\ Len(token_to_value) = 0

\* Both detectors ran on a text of several characters and found nothing,
\* on a fresh registry
C12_Witness ==
    /\ last.op = "mask_text"
    /\ Len(last.text) >= 2
    /\ last.findings = <<>>
    /\ last.pre = EmptyRegistry
    /\ last.pre_svc.use_spacy
    /\ nlp = "model"
    /\ ~ HasEntities(Registry)

(***************************************************************************)
(* C13. Overlap resolution: of two overlapping candidate findings, the     *)
(* one mask_text keeps is the one with the longer span: no finding that    *)
(* is kept overlaps a candidate with a longer span than its own.           *)
(***************************************************************************)
SpanLen(f) == f.end - f.start

Overlap(f, g) == f.start < g.end /\ g.start < f.end

C13_LongerSpanWins ==
    last.op = "mask_text"
    => \A i \in DOMAIN last.filtered, j \in DOMAIN last.findings :
          Overlap(last.filtered[i], last.findings[j])
          => SpanLen(last.filtered[i]) >= SpanLen(last.findings[j])

AccessValues == {EmailA, FormatToken(EMAIL, 1)}

AccessKinds == {EMAIL, PERSON}

\* The pieces the texts given to unmask are made of
UnmaskPieces ==
    {FormatToken(EMAIL, 1), FormatToken(PERSON, 1), <<" ">>, <<"<">>}

\* The texts of at most n pieces
RECURSIVE UnmaskTexts(_)
UnmaskTexts(n) ==
    IF n = 0 THEN {<<>>}
    ELSE LET shorter == UnmaskTexts(n - 1) IN
         shorter \cup {t \o p : t \in shorter, p \in UnmaskPieces}

\* The fragments fed to the stream buffer
AccessChunks == {FormatToken(EMAIL, 1), <<"<">>}

\* registry.unmask(text)
UnmaskCall(text) ==
    /\ phase = "mask"
    /\ last' = [op |-> "unmask", text |-> text,
                ret |-> Unmask(Registry, text), pre |-> Registry]
    /\ UNCHANGED <<registry_vars, buffer_vars, service_vars, phase, calls,
                   loads>>
    /\ UNCHANGED <<thread_vars, access_vars, turn_vars, chat_vars>>

\* registry.has_entities
HasEntitiesCall ==
    /\ phase = "mask"
    /\ last' = [op |-> "has_entities", ret |-> HasEntities(Registry),
                pre |-> Registry]
    /\ UNCHANGED <<registry_vars, buffer_vars, service_vars, phase, calls,
                   loads>>
    /\ UNCHANGED <<thread_vars, access_vars, turn_vars, chat_vars>>

\* d = registry.token_to_value
TokenToValueCall ==
    /\ phase = "mask"
    /\ handout' = TokenToValue(Registry)
    /\ last' = [op |-> "token_to_value", pre |-> Registry]
    /\ UNCHANGED <<registry_vars, buffer_vars, service_vars, phase, calls,
                   loads>>
    /\ UNCHANGED <<thread_vars, turn_vars, chat_vars>>

\* The caller changes the dict d it was handed: d[k] = v, or d.clear() when
\* clear is set.  A dict that is the registry's own changes with it.
MutateHandout(k, v, clear) ==
    /\ phase = "mask"
    /\ handout.held
    /\ \E items \in {IF clear THEN <<>> ELSE DictSet(handout.items, k, v)} :
       /\ handout' = [handout EXCEPT !.items = items]
       /\ token_to_value' = IF handout.shared THEN items ELSE token_to_value
    /\ last' = [op |-> "mutate_handout", pre |-> Registry]
    /\ UNCHANGED <<value_to_token, type_counters, buffer_vars, service_vars,
                   phase, calls, loads>>
    /\ UNCHANGED <<thread_vars, turn_vars, chat_vars>>

AccessNext ==
    \/ \E pii_type \in AccessKinds, value \in AccessValues :
          GetOrCreateTokenCall(pii_type, value)
    \/ \E text \in UnmaskTexts(MaxUnmaskPieces) : UnmaskCall(text)
    \/ HasEntitiesCall
    \/ TokenToValueCall
    \/ \E clear \in BOOLEAN :
          MutateHandout(FormatToken(EMAIL, 1), <<"x">>, clear)
    \/ CreateStreamBuffer
    \/ \E chunk \in AccessChunks : Len(calls) < MaxFeeds /\ FeedCall(chunk)
    \/ FlushCall

AccessSpec == Init /\ [][AccessNext]_vars

(***************************************************************************)
(* C14. unmask: the text unmask returns is its input with every            *)
(* occurrence of every token of the registry replaced by the value the     *)
(* token stands for, and everything else left as it is.                    *)
(***************************************************************************)
\* text read from the left, each token of t2v that starts at the position
\* reached replaced by its value, every other character copied
RECURSIVE ReplaceKnownTokens(_, _)
ReplaceKnownTokens(t2v, text) ==
    IF text = <<>> THEN <<>>
    ELSE LET hits == {i \in DOMAIN t2v : StartsWith(text, t2v[i][1])} IN
         IF hits # {}
         THEN LET i == CHOOSE i \in hits : TRUE IN
              t2v[i][2] \o ReplaceKnownTokens(t2v,
                               SubSeq(text, Len(t2v[i][1]) + 1, Len(text)))
         ELSE <<Head(text)>> \o ReplaceKnownTokens(t2v, Tail(text))

C14_UnmaskEveryToken ==
    last.op = "unmask"
    => last.ret = ReplaceKnownTokens(last.pre.t2v, last.text)

(***************************************************************************)
(* C17. Read-only access: a step that is a feed or a flush of the stream   *)
(* buffer, or a call of unmask, has_entities or token_to_value, or a       *)
(* store into the dict token_to_value handed out, leaves the mappings and  *)
(* the counters of the registry as they were.                              *)
(***************************************************************************)
C17_ReadOnlyAccess ==
    [][ ( \/ calls' # calls
          \/ last'.op \in {"unmask", "has_entities", "token_to_value",
                            "mutate_handout"} )
        => Registry' = Registry ]_vars

\* The dict handed out was changed and differs from the registry's, which
\* still holds its entities after a stream was fed and flushed on it
C17_Witness ==
    /\ phase = "done"
    /\ Len(calls) >= 2
    /\ handout.held
    /\ handout.items # token_to_value
    /\ Len(handout.items) >= Len(token_to_value)
    /\ HasEntities(Registry)
    /\ Len(token_to_value) = Len(value_to_token)

(***************************************************************************)
(* Concurrent first use of one PIIMaskingService: the request handlers     *)
(* get_pii_config and test_pii_masking are plain functions, which the web  *)
(* framework runs on the threads of a pool, all on the service that        *)
(* get_pii_service hands out.  A thread may be switched out between any    *)
(* two of the steps of _get_nlp, which takes no lock.                      *)
(***************************************************************************)
Threads == 1..MaxThreads

\* A thread that is in no call on the service
Idle == [op |-> "none", at |-> "idle"]

LoadInit ==
    /\ value_to_token = <<>>
    /\ token_to_value = <<>>
    /\ type_counters = <<>>
    /\ state = NORMAL
    /\ buffer = <<>>
    /\ use_spacy \in BOOLEAN
    /\ nlp = "None"
    /\ phase = "mask"
    /\ calls = <<>>
    /\ last = NoCall
    /\ loads = <<>>
    /\ pc = [t \in Threads |-> Idle]
    /\ handout = NoHandout
    /\ heap = <<>>
    /\ turns = NoTurns
    /\ chat = NoChat

\* What the steps of a thread inside _get_nlp leave alone
load_frame == <<registry_vars, buffer_vars, phase, calls, last, handout,
                heap, turns, chat>>

\* Thread t reads pii_svc.is_spacy_available, which calls _get_nlp
IsSpacyAvailableCall(t) ==
    /\ pc[t] = Idle
    /\ pc' = [pc EXCEPT ![t] = [op |-> "is_spacy_available", at |-> "check"]]
    /\ UNCHANGED <<service_vars, loads, load_frame>>

\* Thread t calls mask_text on a text of several characters: with the
\* classifier switched on, _detect_ner calls _get_nlp
MaskTextEnter(t) ==
    /\ pc[t] = Idle
    /\ use_spacy
    /\ pc' = [pc EXCEPT ![t] = [op |-> "mask_text", at |-> "check"]]
    /\ UNCHANGED <<service_vars, loads, load_frame>>

\* if self._nlp is None and self._use_spacy
CheckNlp(t) ==
    /\ pc[t].at = "check"
    /\ pc' = [pc EXCEPT ![t].at = IF LoadTried(Service) THEN "load"
                                                        ELSE "return"]
    /\ UNCHANGED <<service_vars, loads, load_frame>>

\* spacy.load(...) returns the model or raises ImportError or OSError
SpacyLoad(t, load_ok) ==
    /\ pc[t].at = "load"
    /\ loads' = Append(loads, load_ok)
    /\ pc' = [pc EXCEPT ![t].at = IF load_ok THEN "store" ELSE "except"]
    /\ UNCHANGED <<service_vars, load_frame>>

\* self._nlp = <the model loaded>
StoreNlp(t) ==
    /\ pc[t].at = "store"
    /\ nlp' = "model"
    /\ pc' = [pc EXCEPT ![t].at = "return"]
    /\ UNCHANGED <<use_spacy, loads, load_frame>>

\* self._use_spacy = False
DisableSpacy(t) ==
    /\ pc[t].at = "except"
    /\ use_spacy' = FALSE
    /\ pc' = [pc EXCEPT ![t].at = "reset"]
    /\ UNCHANGED <<nlp, loads, load_frame>>

\* self._nlp = None
ResetNlp(t) ==
    /\ pc[t].at = "reset"
    /\ nlp' = "None"
    /\ pc' = [pc EXCEPT ![t].at = "return"]
    /\ UNCHANGED <<use_spacy, loads, load_frame>>

\* return self._nlp
ReturnNlp(t) ==
    /\ pc[t].at = "return"
    /\ pc' = [pc EXCEPT ![t] = Idle]
    /\ UNCHANGED <<service_vars, loads, load_frame>>

LoadNext ==
    \E t \in Threads :
        \/ IsSpacyAvailableCall(t)
        \/ MaskTextEnter(t)
        \/ CheckNlp(t)
        \/ \E load_ok \in BOOLEAN : SpacyLoad(t, load_ok)
        \/ StoreNlp(t)
        \/ DisableSpacy(t)
        \/ ResetNlp(t)
        \/ ReturnNlp(t)

LoadSpec == LoadInit /\ [][LoadNext]_vars

(***************************************************************************)
(* C16. Load-once: over the life of a service the classifier model is      *)
(* loaded at most once, whichever way the threads that use the service     *)
(* for the first time are interleaved.                                     *)
(***************************************************************************)
C16_LoadOnce ==
    Cardinality({i \in DOMAIN loads : loads[i]}) <= 1

(***************************************************************************)
(* Concurrent chat turns on one service.  Each turn is one run of the      *)
(* Chat handler (or one round of the loop of ws_chat): it creates its      *)
(* registry, masks its query, creates its stream buffer when the registry  *)
(* has entities, feeds the fragments of the model stream and flushes.  The *)
(* handlers are coroutines, and the turns interleave between these steps.  *)
(* The service is the regex-only one.                                      *)
(***************************************************************************)
Turns == 1..MaxTurns

\* The queries of the turns
TurnTexts == {EmailA, EmailB, <<"1", " ">>}

\* The model streams, each the sequence of its fragments: a whole token,
\* and a stream that ends in the middle of one
TurnStreams == {<<FormatToken(EMAIL, 1)>>, <<(<<"<", "E", "M">>)>>}

\* The local variables of a turn that has not started; 0 stands for None,
\* and stream is what the model stream has still to deliver
NewTurn == [pc |-> "new", registry |-> 0, buffer |-> 0, stream |-> <<>>]

TurnsInit ==
    /\ value_to_token = <<>>
    /\ token_to_value = <<>>
    /\ type_counters = <<>>
    /\ state = NORMAL
    /\ buffer = <<>>
    /\ use_spacy = FALSE
    /\ nlp = "None"
    /\ phase = "mask"
    /\ calls = <<>>
    /\ last = NoCall
    /\ loads = <<>>
    /\ pc = NoThreads
    /\ handout = NoHandout
    /\ heap = <<>>
    /\ turns = [t \in Turns |-> NewTurn]
    /\ chat = NoChat

\* What the steps of the turns leave alone
turns_frame == <<registry_vars, buffer_vars, phase, calls, last, loads, pc,
                 handout, chat>>

\* registry = pii_svc.create_registry()
TurnCreateRegistry(t) ==
    /\ turns[t].pc = "new"
    /\ \E c \in {CreateRegistry(heap)} :
       /\ heap' = c.heap
       /\ turns' = [turns EXCEPT ![t].pc = "mask", ![t].registry = c.ref]
    /\ UNCHANGED <<service_vars, turns_frame>>

\* masked_query = pii_svc.mask_text(query, registry)
TurnMaskText(t, text) ==
    /\ turns[t].pc = "mask"
    /\ \E m \in {MaskText(Service, heap[turns[t].registry].reg, text,
                           <<>>, FALSE)} :
       /\ heap' = [heap EXCEPT ![turns[t].registry].reg = m.reg]
       /\ use_spacy' = m.svc.use_spacy
       /\ nlp' = m.svc.nlp
    /\ turns' = [turns EXCEPT ![t].pc = "masked"]
    /\ UNCHANGED turns_frame

\* if registry is not None and registry.has_entities:
\*     buffer = pii_svc.create_stream_buffer(registry)
\* and otherwise the stream is passed on as it comes
TurnCreateStreamBuffer(t, stream) ==
    /\ turns[t].pc = "masked"
    /\ IF HasEntities(heap[turns[t].registry].reg)
       THEN \E c \in {CreateStreamBufferOn(heap, turns[t].registry)} :
               /\ heap' = c.heap
               /\ turns' = [turns EXCEPT ![t].pc = "stream",
                                         ![t].buffer = c.ref,
                                         ![t].stream = stream]
       ELSE /\ heap' = heap
            /\ turns' = [turns EXCEPT ![t].pc = "done"]
    /\ UNCHANGED <<service_vars, turns_frame>>

\* unmasked = buffer.feed(chunk), for the next fragment of the stream
TurnFeed(t) ==
    /\ turns[t].pc = "stream"
    /\ turns[t].stream # <<>>
    /\ \E b \in {heap[turns[t].buffer]} :
       \E f \in {Feed(heap[b.registry].reg, b.state, b.buffer,
                      Head(turns[t].stream))} :
          heap' = [heap EXCEPT ![turns[t].buffer].state = f.state,
                               ![turns[t].buffer].buffer = f.buffer]
    /\ turns' = [turns EXCEPT ![t].stream = Tail(@)]
    /\ UNCHANGED <<service_vars, turns_frame>>

\* remaining = buffer.flush(), when the stream has ended
TurnFlush(t) ==
    /\ turns[t].pc = "stream"
    /\ turns[t].stream = <<>>
    /\ \E b \in {heap[turns[t].buffer]} :
       \E f \in {Flush(b.state, b.buffer)} :
          heap' = [heap EXCEPT ![turns[t].buffer].state = f.state,
                               ![turns[t].buffer].buffer = f.buffer]
    /\ turns' = [turns EXCEPT ![t].pc = "done"]
    /\ UNCHANGED <<service_vars, turns_frame>>

TurnsNext ==
    \E t \in Turns :
        \/ TurnCreateRegistry(t)
        \/ \E text \in TurnTexts : TurnMaskText(t, text)
        \/ \E stream \in TurnStreams : TurnCreateStreamBuffer(t, stream)
        \/ TurnFeed(t)
        \/ TurnFlush(t)

TurnsSpec == TurnsInit /\ [][TurnsNext]_vars

(***************************************************************************)
(* C18. Per-turn isolation: the registry and the stream buffer of a turn   *)
(* are objects no other turn holds; a step of one turn leaves the          *)
(* mappings and counters of the registry and the mode and pending text of  *)
(* the stream buffer of every other turn as they were; and the first       *)
(* token of each kind in the registry of each turn carries the number 1.   *)
(***************************************************************************)
\* The registry and the stream buffer turn t holds
TurnObjects(t) ==
    <<IF turns[t].registry = 0 THEN <<>> ELSE heap[turns[t].registry],
      IF turns[t].buffer = 0 THEN <<>> ELSE heap[turns[t].buffer]>>

\* No two turns hold the same registry or the same stream buffer, and the
\* buffer of a turn reads the registry of that turn
OwnObjects ==
    /\ \A t, u \in Turns :
          t # u => /\ turns[t].registry = 0
                      \/ turns[t].registry # turns[u].registry
                   /\ turns[t].buffer = 0
                      \/ turns[t].buffer # turns[u].buffer
    /\ \A t \in Turns :
          turns[t].buffer # 0
          => heap[turns[t].buffer].registry = turns[t].registry

\* The first entity registered in each turn got the number 1
NumberedFromOne ==
    \A t \in Turns :
        turns[t].registry # 0
        => LET t2v == heap[turns[t].registry].reg.t2v IN
           t2v # <<>> => \E k \in Kinds : t2v[1][1] = FormatToken(k, 1)

C18_PerTurnIsolation ==
    [][ /\ \A u \in Turns :
             turns'[u] = turns[u] => TurnObjects(u)' = TurnObjects(u)
        /\ OwnObjects'
        /\ NumberedFromOne' ]_vars

\* One turn is done and another is in the middle of a token, each with
\* its own value behind the token numbered 1
C18_Witness ==
    \E t, u \in Turns :
        /\ t # u
        /\ turns[t].pc = "done"
        /\ turns[t].buffer # 0
        /\ turns[u].pc = "stream"
        /\ heap[turns[u].buffer].state = BUFFERING
        /\ heap[turns[u].buffer].buffer # <<>>
        /\ heap[turns[t].registry].reg.t2v[1][1] = FormatToken(EMAIL, 1)
        /\ heap[turns[u].registry].reg.t2v[1][1] = FormatToken(EMAIL, 1)
        /\ heap[turns[t].registry].reg.t2v[1][2]
              # heap[turns[u].registry].reg.t2v[1][2]

(***************************************************************************)
(* The chat handlers: Chat of the worker (services/chat.py), ws_chat       *)
(* (routers/rag.py) and chat (routers/ollama.py).  A turn masks the query  *)
(* and the context into a registry of its own when masking is enabled,     *)
(* builds the messages, and passes the model stream on to the client,      *)
(* through a stream buffer when the registry has entities.  The model      *)
(* stream delivers its fragments and then ends or raises a transport       *)
(* error.  The service is the regex-only one and the query is not empty.   *)
(***************************************************************************)
ChatPaths == {"Chat", "ws_chat", "chat"}

ChatQueries == {EmailA, <<"1", " ">>}

ChatContexts == {<<>>, EmailB}

\* The model streams: the fragments, and how the stream ends after them
ChatStreams ==
    { <<>>, <<FormatToken(EMAIL, 1)>>, <<(<<"<", "E", "M">>)>>,
      <<(<<"<", "E", "M">>), (<<"A", "I", "L", "_", "1", ">">>)>> }

ChatOutcomes == {"end", "error"}

ChatInit ==
    /\ value_to_token = <<>>
    /\ token_to_value = <<>>
    /\ type_counters = <<>>
    /\ state = NORMAL
    /\ buffer = <<>>
    /\ use_spacy = FALSE
    /\ nlp = "None"
    /\ phase = "mask"
    /\ calls = <<>>
    /\ last = NoCall
    /\ loads = <<>>
    /\ pc = NoThreads
    /\ handout = NoHandout
    /\ heap = <<>>
    /\ turns = NoTurns
    /\ \E path \in ChatPaths, pii_enabled \in BOOLEAN :
          chat = [pc |-> "start", path |-> path, pii_enabled |-> pii_enabled,
                  instruction |-> FALSE, buffered |-> FALSE,
                  stream |-> <<>>, outcome |-> "end", arrived |-> <<>>,
                  delivered |-> <<>>, ended |-> "no"]

\* What the steps of a chat handler leave alone
chat_frame == <<phase, last, loads, pc, handout, heap, turns>>

\* The handler up to the start of the stream: the registry is created and
\* the query and the context, if there is one, are masked into it when
\* masking is enabled; the instruction is put into the messages and the
\* stream buffer is created when the registry then has entities.  chat of
\* routers/ollama.py has no context.  stream and outcome are what the
\* model stream is going to do.
ChatMask(query, context, stream, outcome) ==
    /\ chat.pc = "start"
    /\ chat.path = "chat" => context = <<>>
    /\ \E m \in { IF ~ chat.pii_enabled
                   THEN [svc |-> Service, reg |-> Registry]
                   ELSE LET q == MaskText(Service, EmptyRegistry, query,
                                          <<>>, FALSE)
                        IN  IF context = <<>> THEN q
                            ELSE MaskText(q.svc, q.reg, context,
                                          <<>>, FALSE) } :
       /\ value_to_token' = m.reg.v2t
       /\ token_to_value' = m.reg.t2v
       /\ type_counters' = m.reg.tc
       /\ use_spacy' = m.svc.use_spacy
       /\ nlp' = m.svc.nlp
       /\ chat' = [chat EXCEPT
                      !.pc = "stream",
                      !.instruction =
                          InstructionIncluded(chat.pii_enabled, m.reg),
                      !.buffered = chat.pii_enabled /\ HasEntities(m.reg),
                      !.stream = stream,
                      !.outcome = outcome]
    /\ state' = NORMAL
    /\ buffer' = <<>>
    /\ calls' = <<>>
    /\ UNCHANGED chat_frame

\* The model stream delivers its next fragment: it is fed to the stream
\* buffer and what feed returns is sent on if it is not empty; without a
\* stream buffer the fragment is sent on as it is
ChatChunk ==
    /\ chat.pc = "stream"
    /\ chat.stream # <<>>
    /\ \E chunk \in {Head(chat.stream)} :
       IF chat.buffered
       THEN \E f \in {Feed(Registry, state, buffer, chunk)} :
               /\ state' = f.state
               /\ buffer' = f.buffer
               /\ calls' = Append(calls,
                               [op |-> "feed", chunk |-> chunk,
                                ret |-> f.ret, pre_state |-> state,
                                pre_buffer |-> buffer])
               /\ chat' = [chat EXCEPT
                              !.stream = Tail(@),
                              !.arrived = Append(@, chunk),
                              !.delivered = IF f.ret # <<>>
                                            THEN Append(@, f.ret) ELSE @]
       ELSE /\ chat' = [chat EXCEPT !.stream = Tail(@),
                                    !.arrived = Append(@, chunk),
                                    !.delivered = Append(@, chunk)]
            /\ UNCHANGED <<buffer_vars, calls>>
    /\ UNCHANGED <<registry_vars, service_vars, chat_frame>>

\* Chat of the worker finds the request cancelled when a fragment arrives:
\* it reports the cancellation and returns
ChatCancelled ==
    /\ chat.pc = "stream"
    /\ chat.path = "Chat"
    /\ chat.stream # <<>>
    /\ chat' = [chat EXCEPT !.pc = "done", !.ended = "cancelled"]
    /\ UNCHANGED <<registry_vars, buffer_vars, service_vars, calls,
                   chat_frame>>

\* The model stream ends: the loop is left, the stream buffer is flushed
\* and what flush returns is sent on if it is not empty
ChatStreamEnd ==
    /\ chat.pc = "stream"
    /\ chat.stream = <<>>
    /\ chat.outcome = "end"
    /\ IF chat.buffered
       THEN \E f \in {Flush(state, buffer)} :
               /\ state' = f.state
               /\ buffer' = f.buffer
               /\ calls' = Append(calls,
                               [op |-> "flush", chunk |-> <<>>,
                                ret |-> f.ret, pre_state |-> state,
                                pre_buffer |-> buffer])
               /\ chat' = [chat EXCEPT
                              !.pc = "done",
                              !.ended = "end",
                              !.delivered = IF f.ret # <<>>
                                            THEN Append(@, f.ret) ELSE @]
       ELSE /\ chat' = [chat EXCEPT !.pc = "done", !.ended = "end"]
            /\ UNCHANGED <<buffer_vars, calls>>
    /\ UNCHANGED <<registry_vars, service_vars, chat_frame>>

\* The model stream raises a transport error after its fragments: Chat
\* and ws_chat catch it and send an error event, chat of routers/ollama.py
\* lets it leave the generator
ChatStreamError ==
    /\ chat.pc = "stream"
    /\ chat.stream = <<>>
    /\ chat.outcome = "error"
    /\ chat' = [chat EXCEPT !.pc = IF chat.path = "chat" THEN "raised"
                                                           ELSE "done",
                            !.ended = "error"]
    /\ UNCHANGED <<registry_vars, buffer_vars, service_vars, calls,
                   chat_frame>>

ChatNext ==
    \/ \E query \in ChatQueries, context \in ChatContexts,
          stream \in ChatStreams, outcome \in ChatOutcomes :
          ChatMask(query, context, stream, outcome)
    \/ ChatChunk
    \/ ChatCancelled
    \/ ChatStreamEnd
    \/ ChatStreamError

ChatSpec == ChatInit /\ [][ChatNext]_vars

(***************************************************************************)
(* C19. In a turn that streams through a stream buffer, the fragments fed  *)
(* are the fragments the model stream delivered, in the order of arrival;  *)
(* and once the stream has ended, with or without a transport error, the   *)
(* calls on the buffer are these feeds followed by one flush, and the      *)
(* texts sent to the client are the non-empty texts these calls returned.  *)
(***************************************************************************)
\* The chunks of the feed calls, in order
FedChunks ==
    LET feeds == SelectSeq(calls, LAMBDA c : c.op = "feed") IN
    [i \in DOMAIN feeds |-> feeds[i].chunk]

\* The non-empty texts the calls on the buffer returned, in order
ReturnedTexts ==
    LET full == SelectSeq(calls, LAMBDA c : c.ret # <<>>) IN
    [i \in DOMAIN full |-> full[i].ret]

C19_FeedInOrderFlushOnce ==
    chat.buffered
    => /\ FedChunks = chat.arrived
       /\ chat.ended \in {"end", "error"}
            => /\ Len(calls) = Len(chat.arrived) + 1
               /\ calls[Len(calls)].op = "flush"
               /\ \A i \in 1..(Len(calls) - 1) : calls[i].op = "feed"
               /\ chat.delivered = ReturnedTexts

(***************************************************************************)
(* C20. Once the messages of a turn are built, they include the            *)
(* instruction to preserve the tokens if and only if masking is enabled    *)
(* for the turn and has_entities of the registry of the turn is true; and  *)
(* has_entities is true exactly when the registry holds a mapping.         *)
(***************************************************************************)
C20_InstructionIffEntities ==
    chat.pc \in {"stream", "done", "raised"}
    => /\ chat.instruction <=> (chat.pii_enabled /\ HasEntities(Registry))
       /\ HasEntities(Registry) <=> token_to_value # <<>>
       /\ HasEntities(Registry) <=> value_to_token # <<>>

\* Masking was enabled, the registry got an entity and the instruction is
\* in the messages
C20_Witness ==
    /\ chat.pc = "stream"
    /\ chat.pii_enabled
    /\ HasEntities(Registry)
    /\ chat.instruction

(***************************************************************************)
(* C21. After the overlap resolution of a mask_text call the kept          *)
(* findings are ordered by start, and each starts at or after the end of   *)
(* the one kept before it: no two kept findings overlap.                   *)
(***************************************************************************)
C21_KeptFindingsDisjoint ==
    last.op = "mask_text"
    => \A i \in 1..(Len(last.filtered) - 1) :
          /\ last.filtered[i].start < last.filtered[i + 1].start
          /\ last.filtered[i].end <= last.filtered[i + 1].start

\* The candidates of the call overlapped, one of them was dropped and two
\* or more were kept
C21_Witness ==
    /\ last.op = "mask_text"
    /\ Len(last.filtered) >= 2
    /\ Len(last.findings) > Len(last.filtered)
    /\ \E i, j \in DOMAIN last.findings :
          i # j /\ Overlap(last.findings[i], last.findings[j])

(***************************************************************************)
(* C22. Replacement correctness: the text a mask_text call returns is the  *)
(* input text read from the left, with each kept span [start, end)         *)
(* replaced by the token the registry holds for the value of that finding  *)
(* and every character outside the kept spans copied in place.             *)
(***************************************************************************)
\* text from offset pos on, with the spans of kept replaced by their tokens
RECURSIVE MaskedFrom(_, _, _, _)
MaskedFrom(text, kept, pos, v2t) ==
    IF kept = <<>> THEN Slice(text, pos, Len(text))
    ELSE Slice(text, pos, Head(kept).start)
         \o DictGet(v2t, TokenKey(Head(kept).value))
         \o MaskedFrom(text, Tail(kept), Head(kept).end, v2t)

C22_ReplacementCorrect ==
    last.op = "mask_text"
    => last.ret = MaskedFrom(last.text, last.filtered, 0, value_to_token)

\* Two or more spans were replaced, with text before the first and
\* between the first and the second
C22_Witness ==
    /\ last.op = "mask_text"
    /\ Len(last.filtered) >= 2
    /\ last.filtered[1].start > 0
    /\ last.filtered[1].end < last.filtered[2].start
    /\ last.ret # last.text

(***************************************************************************)
(* C23. Fragmentation invariance: from any mode and pending text, feeding  *)
(* a fragment a and then a fragment b returns, concatenated, what one feed *)
(* of a + b returns, and leaves the same mode and pending text; the same   *)
(* holds with the flush after them.  Every partition of a text is reached  *)
(* from every other by cutting and joining neighbouring fragments, so any  *)
(* two partitions give the same output and the same final state.           *)
(***************************************************************************)
\* One feed of the fragments of calls i and i + 1 joined, made in the mode
\* and with the pending text call i found
JoinedFeed(i) ==
    Feed(Registry, calls[i].pre_state, calls[i].pre_buffer,
         calls[i].chunk \o calls[i + 1].chunk)

C23_FragmentationInvariance ==
    \A i \in 1..(Len(calls) - 1) :
        calls[i + 1].op = "feed"
        => /\ JoinedFeed(i).ret = calls[i].ret \o calls[i + 1].ret
           /\ JoinedFeed(i).state = PostState(i + 1)
           /\ JoinedFeed(i).buffer = PostBuffer(i + 1)
           /\ Flush(JoinedFeed(i).state, JoinedFeed(i).buffer).ret
                 = Flush(PostState(i + 1), PostBuffer(i + 1)).ret

\* After a first fragment, a registered token was fed in two fragments and
\* came out as its value with the second
C23_Witness ==
    /\ phase = "stream"
    /\ Len(calls) = 3
    /\ calls[1].chunk # <<>>
    /\ calls[2].chunk # <<>>
    /\ calls[3].chunk # <<>>
    /\ FedBetween(2, 3) \in DictKeys(token_to_value)
    /\ calls[2].ret = <<>>
    /\ calls[3].ret = DictGet(token_to_value, FedBetween(2, 3))
    /\ JoinedFeed(2).ret = calls[3].ret

(***************************************************************************)
(* C24. State invariant of the stream buffer, between any two calls: the   *)
(* mode is NORMAL exactly when the pending text is empty, and in BUFFERING *)
(* the pending text starts with '<', holds no '>' and has between 1 and    *)
(* MAX_TOKEN_LEN characters.  The fragments fed include single             *)
(* characters, so the states after each character are among these.         *)
(***************************************************************************)
C24_BufferInvariant ==
    /\ state \in {NORMAL, BUFFERING}
    /\ state = NORMAL <=> buffer = <<>>
    /\ state = BUFFERING
         => /\ Head(buffer) = "<"
            /\ \A i \in DOMAIN buffer : buffer[i] # ">"
            /\ Len(buffer) >= 1
            /\ Len(buffer) <= MAX_TOKEN_LEN

\* The pending text has reached MAX_TOKEN_LEN characters over two calls
C24_Witness ==
    /\ phase = "stream"
    /\ state = BUFFERING
    /\ Len(buffer) = MAX_TOKEN_LEN
    /\ Len(calls) >= 2
    /\ calls[Len(calls)].pre_state = BUFFERING

(***************************************************************************)
(* C25. Conservation: as long as no '<...>' candidate completed in the     *)
(* stream is a token of the registry, the outputs of the calls so far      *)
(* followed by the pending text are the input so far, character for        *)
(* character; after the flush the outputs alone are the whole input.       *)
(***************************************************************************)
\* The candidates completed by a '>' when text is read with pend pending
RECURSIVE CompletedCandidates(_, _)
CompletedCandidates(text, pend) ==
    IF text = <<>> THEN {}
    ELSE IF pend = <<>>
         THEN CompletedCandidates(Tail(text),
                  IF Head(text) = "<" THEN <<"<">> ELSE <<>>)
         ELSE IF Head(text) = ">"
              THEN {Append(pend, ">")} \cup CompletedCandidates(Tail(text), <<>>)
              ELSE IF Len(pend) + 1 > MAX_TOKEN_LEN
                   THEN CompletedCandidates(Tail(text), <<>>)
                   ELSE CompletedCandidates(Tail(text),
                                            Append(pend, Head(text)))

C25_Conservation ==
    ( /\ phase \in {"stream", "done"}
      /\ CompletedCandidates(FedText, <<>>) \cap DictKeys(token_to_value)
            = {} )
    => /\ EmittedText \o buffer = FedText
       /\ phase = "done" => EmittedText = FedText

\* A stream with a completed candidate that is no token, and with text
\* pending at its end, was flushed on a registry that holds tokens
C25_Witness ==
    /\ phase = "done"
    /\ HasEntities(Registry)
    /\ CompletedCandidates(FedText, <<>>) # {}
    /\ CompletedCandidates(FedText, <<>>) \cap DictKeys(token_to_value) = {}
    /\ calls[Len(calls)].ret # <<>>
    /\ EmittedText = FedText

(***************************************************************************)
(* C26. A '<' received in BUFFERING is appended to the pending text like   *)
(* any other character and starts no new candidate: when calls i..j, the   *)
(* first made in NORMAL, deliver a text that starts with '<', ends with    *)
(* its only '>', has at most MAX_TOKEN_LEN + 1 characters and holds a      *)
(* further '<', the pending text after each call before the last is all    *)
(* that was delivered since the first '<', and the last call looks up,     *)
(* and returns the value or the text of, the whole text from that first    *)
(* '<'.                                                                    *)
(***************************************************************************)
\* What calls i..j returned, concatenated
EmittedBetween(i, j) == Join([k \in 1..(j - i + 1) |-> calls[i + k - 1].ret])

\* Calls i..j deliver, from NORMAL, one candidate with a '<' inside it
IsNestedCandidate(i, j) ==
    /\ i <= j
    /\ \A k \in i..j : calls[k].op = "feed"
    /\ calls[i].pre_state = NORMAL
    /\ LET t == FedBetween(i, j) IN
       /\ Len(t) >= 3
       /\ Len(t) <= MAX_TOKEN_LEN + 1
       /\ t[1] = "<"
       /\ t[Len(t)] = ">"
       /\ \A k \in 1..(Len(t) - 1) : t[k] # ">"
       /\ \E k \in 2..(Len(t) - 1) : t[k] = "<"

C26_InnerOpenAppended ==
    \A i \in DOMAIN calls : \A j \in DOMAIN calls :
        IsNestedCandidate(i, j) =>
            /\ \A k \in i..(j - 1) :
                  /\ FedBetween(i, k) # <<>> => PostState(k) = BUFFERING
                  /\ PostBuffer(k) = FedBetween(i, k)
            /\ EmittedBetween(i, j)
                  = IF FedBetween(i, j) \in DictKeys(token_to_value)
                    THEN DictGet(token_to_value, FedBetween(i, j))
                    ELSE FedBetween(i, j)
            /\ PostState(j) = NORMAL
            /\ PostBuffer(j) = <<>>

\* A '<' was pending when a whole token of the registry arrived: the
\* candidate looked up starts at the first '<' and the token in it is
\* returned as it came
C26_Witness ==
    \E i \in DOMAIN calls :
        /\ i > 1
        /\ IsNestedCandidate(i - 1, i)
        /\ calls[i].pre_buffer = <<"<">>
        /\ calls[i].chunk \in DictKeys(token_to_value)
        /\ calls[i].ret = <<"<">> \o calls[i].chunk

(***************************************************************************)
(* The stream on a registry with a long token.  get_or_create_token takes  *)
(* any string as pii_type; with a kind of MAX_TOKEN_LEN - 3 characters the *)
(* first token of that kind has MAX_TOKEN_LEN + 1 characters, its '>'      *)
(* being the character that makes the candidate too long.                  *)
(***************************************************************************)
LongKind == [i \in 1..(MAX_TOKEN_LEN - 3) |-> "K"]

LongToken == FormatToken(LongKind, 1)

\* The fragments of this stream: single characters, the long token whole,
\* without its '>', without its '<', and without both, and a short token
LongChunks ==
    { <<"<">>, <<">">>, <<"a">>, LongToken,
      SubSeq(LongToken, 1, MAX_TOKEN_LEN),
      SubSeq(LongToken, 2, MAX_TOKEN_LEN + 1),
      SubSeq(LongToken, 2, MAX_TOKEN_LEN),
      FormatToken(EMAIL, 1) }

LongNext ==
    \/ \E pii_type \in {EMAIL, LongKind}, value \in StreamValues :
          GetOrCreateTokenCall(pii_type, value)
    \/ CreateStreamBuffer
    \/ \E chunk \in LongChunks : Len(calls) < MaxFeeds /\ FeedCall(chunk)
    \/ FlushCall

LongSpec == Init /\ [][LongNext]_vars

(***************************************************************************)
(* C27. In BUFFERING the test for '>' comes before the test of the length: *)
(* when the character that brings the candidate to MAX_TOKEN_LEN + 1       *)
(* characters is a '>', the candidate is looked up, and its value returned *)
(* if it is a token of the registry; the candidate is released as too long *)
(* only when that character is not a '>'.                                  *)
(***************************************************************************)
\* Call i is a feed in BUFFERING whose chunk brings the candidate to
\* MAX_TOKEN_LEN + 1 characters with no '>' before the last of them
ReachesLimit(i) ==
    LET n == MAX_TOKEN_LEN + 1 - Len(calls[i].pre_buffer) IN
    /\ calls[i].op = "feed"
    /\ calls[i].pre_state = BUFFERING
    /\ n <= Len(calls[i].chunk)
    /\ \A m \in 1..(n - 1) : calls[i].chunk[m] # ">"

\* The MAX_TOKEN_LEN + 1 characters of the candidate of such a call
LimitCandidate(i) ==
    calls[i].pre_buffer
       \o SubSeq(calls[i].chunk, 1,
                 MAX_TOKEN_LEN + 1 - Len(calls[i].pre_buffer))

C27_CloseBeforeLength ==
    \A i \in DOMAIN calls :
        ReachesLimit(i) =>
            /\ StartsWith(calls[i].ret,
                  IF /\ LimitCandidate(i)[MAX_TOKEN_LEN + 1] = ">"
                     /\ LimitCandidate(i) \in DictKeys(token_to_value)
                  THEN DictGet(token_to_value, LimitCandidate(i))
                  ELSE LimitCandidate(i))
            /\ Len(LimitCandidate(i))
                  = Len(calls[i].pre_buffer) + Len(calls[i].chunk)
               => PostState(i) = NORMAL /\ PostBuffer(i) = <<>>

\* The '>' of the long token arrived alone, as character MAX_TOKEN_LEN + 1
\* of the candidate, and the value of the token was returned
C27_Witness ==
    \E i \in DOMAIN calls :
        /\ ReachesLimit(i)
        /\ Len(calls[i].pre_buffer) = MAX_TOKEN_LEN
        /\ calls[i].chunk = <<">">>
        /\ LimitCandidate(i) \in DictKeys(token_to_value)
        /\ calls[i].ret = DictGet(token_to_value, LimitCandidate(i))
        /\ calls[i].ret # LimitCandidate(i)

(***************************************************************************)
(* C28. Within one mask_text call the tokens are requested from the right  *)
(* to the left: of two values that the call registers under the same kind, *)
(* the one whose rightmost occurrence lies further right gets the lower    *)
(* number.                                                                 *)
(***************************************************************************)
\* Kept finding i of the last call is the rightmost occurrence of a value
\* the registry did not hold before the call
IsRightmostNew(i) ==
    /\ TokenKey(last.filtered[i].value) \notin DictKeys(last.pre.v2t)
    /\ \A k \in (i + 1)..Len(last.filtered) :
          TokenKey(last.filtered[k].value) # TokenKey(last.filtered[i].value)

\* The token the registry now holds for kept finding i
TokenOfFinding(i) == DictGet(value_to_token, TokenKey(last.filtered[i].value))

C28_RightToLeftNumbering ==
    last.op = "mask_text"
    => \A i \in DOMAIN last.filtered : \A j \in DOMAIN last.filtered :
          ( /\ i < j
            /\ IsRightmostNew(i)
            /\ IsRightmostNew(j)
            /\ last.filtered[i].pii_type = last.filtered[j].pii_type )
          => \E n \in 1..Len(value_to_token) :
                \E m \in (n + 1)..Len(value_to_token) :
                   /\ TokenOfFinding(j)
                         = FormatToken(last.filtered[j].pii_type, n)
                   /\ TokenOfFinding(i)
                         = FormatToken(last.filtered[i].pii_type, m)

\* A text with two different e-mail addresses, neither in the registry:
\* the one on the right became <EMAIL_1>, the one on the left <EMAIL_2>
C28_Witness ==
    /\ last.op = "mask_text"
    /\ last.pre.v2t = <<>>
    /\ Len(last.filtered) = 2
    /\ last.filtered[1].pii_type = EMAIL
    /\ last.filtered[2].pii_type = EMAIL
    /\ last.filtered[1].value # last.filtered[2].value
    /\ TokenOfFinding(2) = FormatToken(EMAIL, 1)
    /\ TokenOfFinding(1) = FormatToken(EMAIL, 2)

(***************************************************************************)
(* C29. The registry is keyed by the stripped value alone: a call          *)
(* get_or_create_token(k2, v) for a value that holds a token <k1_N> of     *)
(* another kind k1 returns <k1_N>, adds no entry to either map and no      *)
(* token of kind k2, and leaves the counter of k2 as it was.               *)
(***************************************************************************)
\* The last call asked, under another kind, for a value that has a token
LastOtherKind ==
    /\ LastSeenBefore
    /\ \E k1 \in Kinds \ {last.pii_type} :
          \E n \in 1..Len(last.pre.v2t) :
             DictGet(last.pre.v2t, TokenKey(last.value)) = FormatToken(k1, n)

C29_KeyedByValueAlone ==
    LastOtherKind =>
        /\ last.ret = DictGet(last.pre.v2t, TokenKey(last.value))
        /\ \A n \in 1..(Len(last.pre.v2t) + 1) :
              last.ret # FormatToken(last.pii_type, n)
        /\ value_to_token = last.pre.v2t
        /\ token_to_value = last.pre.t2v
        /\ CounterGet(type_counters, last.pii_type)
              = CounterGet(last.pre.tc, last.pii_type)
        /\ type_counters = last.pre.tc

\* A value registered second under one kind was asked for, as it is,
\* under a kind the registry has no token of
C29_Witness ==
    /\ LastOtherKind
    /\ last.value = TokenKey(last.value)
    /\ CounterGet(type_counters, last.pii_type) = 0
    /\ \E k1 \in Kinds : last.ret = FormatToken(k1, 2)

(***************************************************************************)
(* The registry over a conversation: values are registered one by one,     *)
(* then mask_text is called on the same registry, twice.                   *)
(***************************************************************************)
AppendValues == {EmailA, <<" ">> \o EmailA, Jo}

AppendKinds == {EMAIL, PERSON}

\* One address, two addresses, another address, and a text without any
AppendTexts ==
    { EmailA, EmailA \o <<" ", "1">> \o EmailA, EmailB, <<"1", " ">> }

AppendNext ==
    \/ \E pii_type \in AppendKinds, value \in AppendValues :
          GetOrCreateTokenCall(pii_type, value)
    \/ \E text \in AppendTexts, load_ok \in BOOLEAN :
          MaskTextCall(text, <<>>, load_ok)

AppendSpec == Init /\ [][AppendNext]_vars

(***************************************************************************)
(* C30. The entries of the registry are append-only: no call changes or    *)
(* removes the token of a value that has one, or the value of a token, no  *)
(* token that is in use is given to a new value, and no per-kind counter   *)
(* decreases.                                                              *)
(***************************************************************************)
AppendOnlyStep ==
    /\ \A v \in DictKeys(value_to_token) :
          /\ v \in DictKeys(value_to_token')
          /\ DictGet(value_to_token', v) = DictGet(value_to_token, v)
    /\ \A t \in DictKeys(token_to_value) :
          /\ t \in DictKeys(token_to_value')
          /\ DictGet(token_to_value', t) = DictGet(token_to_value, t)
    /\ \A v \in DictKeys(value_to_token') \ DictKeys(value_to_token) :
          DictGet(value_to_token', v) \notin DictValues(value_to_token)
    /\ \A k \in Kinds :
          CounterGet(type_counters', k) >= CounterGet(type_counters, k)

C30_AppendOnly == [][AppendOnlyStep]_vars

\* A second mask_text call found a value the registry held, which kept
\* its token, and a new one, which was added
C30_Witness ==
    /\ phase = "remasked"
    /\ last.op = "mask_text"
    /\ Len(last.pre.v2t) >= 2
    /\ Len(value_to_token) > Len(last.pre.v2t)
    /\ \E i \in DOMAIN last.filtered :
          TokenKey(last.filtered[i].value) \in DictKeys(last.pre.v2t)

=============================================================================
